---------------------------- MODULE Spec2Model ----------------------------
(***************************************************************************)
(* A model of the league system of boazelbom-creator/lesson24: the league  *)
(* manager (registration gate, scheduler, standings ledger, round          *)
(* orchestration), and the referee (game logic, announcement handler and   *)
(* the conduct of a match).                                                *)
(*                                                                         *)
(* Every agent is a single asyncio event loop: a handler or task runs      *)
(* without interruption from one await to the next, so one action of the   *)
(* model is one such segment of code.                                      *)
(***************************************************************************)
EXTENDS Integers, Sequences, FiniteSets, Bags, TLC

VARIABLES
    \* ---- league manager: registration.py, RegistrationManager
    referees,           \* dict referee id -> Participant
    players,            \* dict player id -> Participant
    referee_count,
    player_count,
    tokens_issued,      \* number of generate_token() calls so far
    \* ---- league manager: standings.py, StandingsManager
    standings,          \* dict player id -> StandingsData
    \* ---- league manager: server.py globals
    scheduler,          \* None or the TournamentScheduler object
    current_round,
    match_results,      \* dict match id -> MatchResult
    tournament_started,
    tasks,              \* bag of the coroutines asyncio holds (created or suspended)
    outbox,             \* bag of the messages the league manager has sent
    lm_reply,           \* what the last handled request did and was answered
    regs_left,          \* registration requests the run may still see
    reports_left,       \* the result reports referees have yet to send
    resends_left,       \* how often a referee may still send a report once more
    failures_left,      \* how many sends to players may still fail
    send_failed,        \* the standings updates whose send failed: <<player, round>>
    \* ---- scheduler.py exercised on its own
    sch_players,        \* the player id list handed to TournamentScheduler
    sch_referees,       \* the referee id list handed to TournamentScheduler
    sch,                \* None or the TournamentScheduler object
    sch_other,          \* None or the lists of a reordering with the scheduler built from them
    sch_valid,          \* "unknown", or "True" / "False" as validate_schedule returned last
    sch_edits,          \* number of corruptions applied to sch.schedule
    \* ---- referee game_logic.py / conduct_match step 3 exercised on its own
    g_match,            \* None or the match data the referee was given
    g_reply_A,          \* None or the JSON player A answered the choice request with
    g_reply_B,          \* None or the JSON player B answered the choice request with
    g_choice_A,         \* what request_player_choice returned for A, or the direct argument
    g_choice_B,         \* what request_player_choice returned for B, or the direct argument
    g_drawn,            \* the number draw_random_number returns
    g_pc,               \* "idle", "calculated" (direct call) or "resolved" (conduct_match)
    g_result,           \* None or the (winner, score, details) computed
    \* ---- referee: referee_server.py
    context,            \* the RefereeContext global of each referee's process
    conduct,            \* the conduct_match coroutines of the referees, in order of their creation
    ref_reply,          \* what handle_round_announcement answered last, and to what
    announcements_left, \* the ROUND_ANNOUNCEMENTs yet to be delivered to the referee
    \* ---- standings.py, StandingsManager exercised on its own
    ledger,             \* the manager's standings dict
    ledger_op,          \* the last call made on the manager: its argument and effect
    ledger_calls        \* number of calls made on the manager so far

lmVars == <<referees, players, referee_count, player_count, tokens_issued,
            standings, scheduler, current_round, match_results,
            tournament_started, tasks, outbox, lm_reply, regs_left, reports_left,
            resends_left, failures_left, send_failed>>
\* the network around the league manager: what it may still do to a run
netVars == <<resends_left, failures_left, send_failed>>
schVars == <<sch_players, sch_referees, sch, sch_other, sch_valid, sch_edits>>
gameVars == <<g_match, g_reply_A, g_reply_B, g_choice_A, g_choice_B, g_drawn,
              g_pc, g_result>>
refVars == <<context, conduct, ref_reply, announcements_left>>
ledVars == <<ledger, ledger_op, ledger_calls>>
vars == <<lmVars, schVars, gameVars, refVars, ledVars>>

-----------------------------------------------------------------------------
(* Bounds of the model *)

\* registration requests the league manager handles in one run
MaxRegs == 7
\* match result reports the league manager handles in one run
MaxReports == 2
\* corruptions applied to a generated schedule
MaxEdits == 3

-----------------------------------------------------------------------------
(* Python values *)

\* Python's None where a string is expected
None == "None"
\* Python's None where an object is expected
NoObject == [none |-> TRUE]
\* an empty dict
EmptyDict == [k \in {} |-> None]
\* d[k] = v on a dict
DictSet(d, k, v) == [x \in (DOMAIN d) \cup {k} |-> IF x = k THEN v ELSE d[x]]
\* f"{k:02d}"
Pad2(k) == IF k < 10 THEN "0" \o ToString(k) ELSE ToString(k)

-----------------------------------------------------------------------------
(* scheduler.py: TournamentScheduler *)

\* The id strings of the model in the order of Python's str comparison, which
\* sorted() uses: character by character, '0' < '1' < '2', "P" < "R".
LexOrder == <<"P00", "P01", "P02", "P03", "P04", "P05", "P10", "P2",
              "REF00", "REF01", "REF02", "REF03", "REF1">>
LexRank(s) == CHOOSE i \in 1..Len(LexOrder) : LexOrder[i] = s
StrLess(a, b) == LexRank(a) < LexRank(b)

\* the ids kept in the order given
SortedIds_asGiven(ids) == ids

\* sorted(ids)
SortedIds(ids) == SortSeq(ids, StrLess)

\* a pairing table whose third round repeats a pair of the second
Pairings_repeated == << << <<0, 1>>, <<2, 3>> >>,
                        << <<0, 2>>, <<1, 3>> >>,
                        << <<0, 3>>, <<1, 3>> >> >>

\* a pairing table with every pair once whose first two rounds each use one
\* player twice
Pairings_roundsMixed == << << <<0, 1>>, <<0, 2>> >>,
                           << <<2, 3>>, <<1, 3>> >>,
                           << <<0, 3>>, <<1, 2>> >> >>

\* the pairing table of generate_schedule, by 0-based player index
Pairings == << << <<0, 1>>, <<2, 3>> >>,
               << <<0, 2>>, <<1, 3>> >>,
               << <<0, 3>>, <<1, 2>> >> >>

\* f"R{round_num}M{match_num}"
MatchId(round_num, match_num) == "R" \o ToString(round_num) \o "M" \o ToString(match_num)

\* Match(match_id, game_type, player_A_id, player_B_id, referee_id)
Match(mid, a, b, ref) ==
    [match_id |-> mid, game_type |-> "even_odd",
     player_A_id |-> a, player_B_id |-> b, referee_id |-> ref]

\* TournamentScheduler.__init__: both id lists are stored sorted
NewScheduler(player_ids, referee_ids) ==
    [player_ids |-> SortedIds(player_ids),
     referee_ids |-> SortedIds(referee_ids),
     schedule |-> << >>]

\* the Match built with the first referee whatever the match index
ScheduledMatch_firstReferee(self, round_idx, match_idx) ==
    LET pair == Pairings[round_idx + 1][match_idx + 1]
    IN  Match(MatchId(round_idx + 1, match_idx + 1),
              self.player_ids[pair[1] + 1],
              self.player_ids[pair[2] + 1],
              self.referee_ids[1])

\* the Match built for 0-based (round_idx, match_idx); Python lists are 0-based,
\* TLA+ sequences 1-based
ScheduledMatch(self, round_idx, match_idx) ==
    LET pair == Pairings[round_idx + 1][match_idx + 1]
        referee_idx == match_idx % Len(self.referee_ids)
    IN  Match(MatchId(round_idx + 1, match_idx + 1),
              self.player_ids[pair[1] + 1],
              self.player_ids[pair[2] + 1],
              self.referee_ids[referee_idx + 1])

\* generate_schedule: the scheduler with self.schedule rebuilt
GenerateSchedule(self) ==
    [self EXCEPT !.schedule =
        [r \in 1..Len(Pairings) |->
            [m \in 1..Len(Pairings[r]) |-> ScheduledMatch(self, r - 1, m - 1)]]]

\* get_round_matches(round_num), 1-indexed; [] out of range
GetRoundMatches(self, round_num) ==
    IF 1 <= round_num /\ round_num <= Len(self.schedule)
    THEN self.schedule[round_num] ELSE << >>

\* get_total_rounds
GetTotalRounds(self) == Len(self.schedule)

\* all matches of the schedule, in iteration order
AllMatches(schedule) ==
    LET F[i \in 0..Len(schedule)] ==
            IF i = 0 THEN << >> ELSE F[i - 1] \o schedule[i]
    IN  F[Len(schedule)]

\* tuple(sorted([a, b]))
SortedPair(a, b) == IF StrLess(b, a) THEN <<b, a>> ELSE <<a, b>>

\* player_match_count after the counting loop of validate_schedule
PlayerMatchCount(self, pid) ==
    LET ms == AllMatches(self.schedule)
    IN  Cardinality({i \in 1..Len(ms) : ms[i].player_A_id = pid})
      + Cardinality({i \in 1..Len(ms) : ms[i].player_B_id = pid})

\* the duplicate-pairing loop of validate_schedule finds a pairing already seen
HasDuplicatePairing(self) ==
    LET ms == AllMatches(self.schedule)
    IN  \E i, j \in 1..Len(ms) :
            /\ i < j
            /\ SortedPair(ms[i].player_A_id, ms[i].player_B_id)
                 = SortedPair(ms[j].player_A_id, ms[j].player_B_id)

\* validate_schedule rejecting only a count above 3
ValidateSchedule_countAbove(self) ==
    IF \E i \in 1..Len(self.player_ids) : PlayerMatchCount(self, self.player_ids[i]) > 3
    THEN FALSE
    ELSE ~HasDuplicatePairing(self)

\* validate_schedule (on a schedule whose players are all in self.player_ids)
ValidateSchedule(self) ==
    IF \E i \in 1..Len(self.player_ids) : PlayerMatchCount(self, self.player_ids[i]) # 3
    THEN FALSE
    ELSE ~HasDuplicatePairing(self)

-----------------------------------------------------------------------------
(* registration.py: RegistrationManager *)

\* the registration requests agents send: RegistrationRequest(display_name,
\* contact_endpoint); version, game_types and max_concurrent_matches are stored
\* nowhere
RefereeRequests ==
    {[display_name |-> "Referee-1", contact_endpoint |-> "http://localhost:8001"]}
PlayerRequests ==
    {[display_name |-> "Player-1", contact_endpoint |-> "http://localhost:8101"]}

\* generate_token: secrets.token_hex(32), a fresh value at every call
GenerateToken == "token-" \o ToString(tokens_issued + 1)

\* Participant(participant_id, display_name, contact_endpoint, auth_token)
Participant(id, request, token) ==
    [participant_id |-> id, display_name |-> request.display_name,
     contact_endpoint |-> request.contact_endpoint, auth_token |-> token]

\* the referee limit tested with > in place of >=
RefereeLimitReached_offByOne == referee_count > 2

\* register_referee, line 26: if self.referee_count >= 2
RefereeLimitReached == referee_count >= 2

\* the player limit tested with > in place of >=
PlayerLimitReached_offByOne == player_count > 4

\* register_player, line 55: if self.player_count >= 4
PlayerLimitReached == player_count >= 4

\* register_referee, lines 30-31: the count is incremented, then formatted
NewRefereeId == "REF" \o Pad2(referee_count + 1)

\* the player id formatted from the count before its increment
NewPlayerId_beforeIncrement == "P" \o Pad2(player_count)

\* register_player, lines 59-60
NewPlayerId == "P" \o Pad2(player_count + 1)

\* all_registered satisfied by a single referee
AllRegistered_oneReferee(rc, pc) == rc >= 1 /\ pc = 4

\* all_registered, evaluated on the counters given
AllRegistered(rc, pc) == rc = 2 /\ pc = 4

\* the keys of a participant dict as a list; keys are inserted in increasing
\* order of the counter, which for two-digit ids is their sorted order
DictKeys(d) ==
    [i \in 1..Cardinality(DOMAIN d) |->
        CHOOSE k \in DOMAIN d :
            Cardinality({o \in DOMAIN d : StrLess(o, k)}) = i - 1]

\* get_participant
GetParticipant(id) ==
    IF id \in DOMAIN referees THEN referees[id]
    ELSE IF id \in DOMAIN players THEN players[id]
    ELSE NoObject

-----------------------------------------------------------------------------
(* standings.py: StandingsManager *)

\* StandingsData(display_name=display_name)
NewStandingsData(display_name) ==
    [played |-> 0, wins |-> 0, draws |-> 0, losses |-> 0, points |-> 0,
     display_name |-> display_name]

\* a score dict is a list of <<player id, points>> items in key order
ScoreKeys(score) == [i \in 1..Len(score) |-> score[i][1]]

\* update_from_result writing player B's row into the ledger as it was read
\* before player A's row was written: the write for player A is lost
UpdateFromResult_lostWrite(st, result) ==
    LET keys == ScoreKeys(result.score)
        a == keys[1]
        b == keys[2]
        st1 == [st EXCEPT ![a].played = @ + 1]
        st2 == [st EXCEPT ![b].played = @ + 1]
    IN  IF Len(keys) # 2 THEN [standings |-> st, raised |-> FALSE]
        ELSE IF a \notin DOMAIN st THEN [standings |-> st, raised |-> TRUE]
        ELSE IF b \notin DOMAIN st1 THEN [standings |-> st1, raised |-> TRUE]
        ELSE IF result.winner = None \/ result.winner = ""
        THEN [standings |->
                [st2 EXCEPT ![a].draws = @ + 1, ![a].points = @ + 1,
                            ![b].draws = @ + 1, ![b].points = @ + 1],
              raised |-> FALSE]
        ELSE IF result.winner = a
        THEN [standings |->
                [st2 EXCEPT ![a].wins = @ + 1, ![a].points = @ + 3,
                            ![b].losses = @ + 1],
              raised |-> FALSE]
        ELSE IF result.winner = b
        THEN [standings |->
                [st2 EXCEPT ![b].wins = @ + 1, ![b].points = @ + 3,
                            ![a].losses = @ + 1],
              raised |-> FALSE]
        ELSE [standings |-> st2, raised |-> FALSE]

\* update_from_result that forgets the loser's row when a match has a winner
UpdateFromResult_winnerOnly(st, result) ==
    LET keys == ScoreKeys(result.score)
        a == keys[1]
        b == keys[2]
        st1 == [st EXCEPT ![a].played = @ + 1]
        st2 == [st1 EXCEPT ![b].played = @ + 1]
    IN  IF Len(keys) # 2 THEN [standings |-> st, raised |-> FALSE]
        ELSE IF a \notin DOMAIN st THEN [standings |-> st, raised |-> TRUE]
        ELSE IF b \notin DOMAIN st1 THEN [standings |-> st1, raised |-> TRUE]
        ELSE IF result.winner = None \/ result.winner = ""
        THEN [standings |->
                [st2 EXCEPT ![a].draws = @ + 1, ![a].points = @ + 1,
                            ![b].draws = @ + 1, ![b].points = @ + 1],
              raised |-> FALSE]
        ELSE IF result.winner = a
        THEN [standings |-> [st2 EXCEPT ![a].wins = @ + 1, ![a].points = @ + 3],
              raised |-> FALSE]
        ELSE IF result.winner = b
        THEN [standings |-> [st2 EXCEPT ![b].wins = @ + 1, ![b].points = @ + 3],
              raised |-> FALSE]
        ELSE [standings |-> st2, raised |-> FALSE]

\* update_from_result counting the match as played and leaving out the
\* outcome: no wins, draws, losses or points are entered
UpdateFromResult_playedOnly(st, result) ==
    LET keys == ScoreKeys(result.score)
        a == keys[1]
        b == keys[2]
        st1 == [st EXCEPT ![a].played = @ + 1]
        st2 == [st1 EXCEPT ![b].played = @ + 1]
    IN  IF Len(keys) # 2 THEN [standings |-> st, raised |-> FALSE]
        ELSE IF a \notin DOMAIN st THEN [standings |-> st, raised |-> TRUE]
        ELSE IF b \notin DOMAIN st1 THEN [standings |-> st1, raised |-> TRUE]
        ELSE [standings |-> st2, raised |-> FALSE]

\* update_from_result: the ledger after the call and whether it raised KeyError.
\* The statements run in order, so an exception leaves the earlier ones done.
UpdateFromResult(st, result) ==
    LET keys == ScoreKeys(result.score)
        a == keys[1]
        b == keys[2]
        st1 == [st EXCEPT ![a].played = @ + 1]
        st2 == [st1 EXCEPT ![b].played = @ + 1]
    IN  IF Len(keys) # 2 THEN [standings |-> st, raised |-> FALSE]
        ELSE IF a \notin DOMAIN st THEN [standings |-> st, raised |-> TRUE]
        ELSE IF b \notin DOMAIN st1 THEN [standings |-> st1, raised |-> TRUE]
        ELSE IF result.winner = None \/ result.winner = ""
        THEN [standings |->
                [st2 EXCEPT ![a].draws = @ + 1, ![a].points = @ + 1,
                            ![b].draws = @ + 1, ![b].points = @ + 1],
              raised |-> FALSE]
        ELSE IF result.winner = a
        THEN [standings |->
                [st2 EXCEPT ![a].wins = @ + 1, ![a].points = @ + 3,
                            ![b].losses = @ + 1],
              raised |-> FALSE]
        ELSE IF result.winner = b
        THEN [standings |->
                [st2 EXCEPT ![b].wins = @ + 1, ![b].points = @ + 3,
                            ![a].losses = @ + 1],
              raised |-> FALSE]
        ELSE [standings |-> st2, raised |-> FALSE]

\* get_sorted_standings sorting ascending and reversing the list afterwards:
\* entries equal on both keys come out in reverse order of the dict
GetSortedStandings_reversed(st) ==
    LET ids == DictKeys(st)
        n == Len(ids)
        before(x, y) == x.points > y.points \/ (x.points = y.points /\ x.wins > y.wins)
        pos(i) == 1 + Cardinality({j \in 1..n : before(st[ids[j]], st[ids[i]])})
                    + Cardinality({j \in (i + 1)..n :
                                     /\ ~before(st[ids[j]], st[ids[i]])
                                     /\ ~before(st[ids[i]], st[ids[j]])})
    IN  [rank \in 1..n |->
            LET i == CHOOSE i \in 1..n : pos(i) = rank
            IN  [rank |-> rank, player_id |-> ids[i],
                 display_name |-> st[ids[i]].display_name,
                 played |-> st[ids[i]].played, wins |-> st[ids[i]].wins,
                 draws |-> st[ids[i]].draws, losses |-> st[ids[i]].losses,
                 points |-> st[ids[i]].points]]

\* get_sorted_standings: list.sort(key=(points, wins), reverse=True) is stable,
\* so entries equal on both keep the order of the dict, then ranks 1..N
SortsBefore(x, y) ==
    x.points > y.points \/ (x.points = y.points /\ x.wins > y.wins)
GetSortedStandings(st) ==
    LET ids == DictKeys(st)
        n == Len(ids)
        pos(i) == 1 + Cardinality({j \in 1..n : SortsBefore(st[ids[j]], st[ids[i]])})
                    + Cardinality({j \in 1..(i - 1) :
                                     /\ ~SortsBefore(st[ids[j]], st[ids[i]])
                                     /\ ~SortsBefore(st[ids[i]], st[ids[j]])})
    IN  [rank \in 1..n |->
            LET i == CHOOSE i \in 1..n : pos(i) = rank
            IN  [rank |-> rank, player_id |-> ids[i],
                 display_name |-> st[ids[i]].display_name,
                 played |-> st[ids[i]].played, wins |-> st[ids[i]].wins,
                 draws |-> st[ids[i]].draws, losses |-> st[ids[i]].losses,
                 points |-> st[ids[i]].points]]

-----------------------------------------------------------------------------
(* referee: game_logic.py, http_client.request_player_choice and step 3 of
   referee_server.conduct_match *)

\* MatchResult(round_id, match_id, winner, score); details is optional and
\* read nowhere in the league manager
MatchResult(round_id, match_id, winner, score) ==
    [round_id |-> round_id, match_id |-> match_id, winner |-> winner, score |-> score]

\* str.lower() on the strings of the model
LowerTable == << <<"ODD", "odd">>, <<"Odd", "odd">>, <<"oDd", "odd">>,
                 <<"EVEN", "even">>, <<"Even", "even">>, <<"eVEN", "even">>,
                 <<"MAYBE", "maybe">> >>
Lower(str) ==
    IF \E i \in 1..Len(LowerTable) : LowerTable[i][1] = str
    THEN LowerTable[CHOOSE i \in 1..Len(LowerTable) : LowerTable[i][1] = str][2]
    ELSE str

\* get_parity with the two parities exchanged
GetParity_exchanged(number) == IF number % 2 = 0 THEN "odd" ELSE "even"

\* get_parity
GetParity(number) == IF number % 2 = 1 THEN "odd" ELSE "even"

\* the (winner, score, details) tuple both algorithms return
Outcome(winner, score, details) ==
    [winner |-> winner, score |-> score, details |-> details]

\* calculate_match_result with a draw scored as a shared win, 3 to each
CalculateMatchResult_drawThree(player_A_id, player_A_choice, player_B_id, player_B_choice, drawn_number) ==
    LET drawn_parity == GetParity(drawn_number)
        choice_A == Lower(player_A_choice)
        choice_B == Lower(player_B_choice)
        Details(outcome) ==
            [drawn_number |-> drawn_number, drawn_parity |-> drawn_parity,
             player_A_choice |-> choice_A, player_B_choice |-> choice_B,
             outcome |-> outcome]
    IN  IF choice_A = choice_B
        THEN Outcome(None, << <<player_A_id, 3>>, <<player_B_id, 3>> >>,
                     Details("DRAW"))
        ELSE IF choice_A = drawn_parity
        THEN Outcome(player_A_id, << <<player_A_id, 3>>, <<player_B_id, 0>> >>,
                     Details(player_A_id \o " WINS"))
        ELSE Outcome(player_B_id, << <<player_A_id, 0>>, <<player_B_id, 3>> >>,
                     Details(player_B_id \o " WINS"))

\* calculate_match_result
CalculateMatchResult(player_A_id, player_A_choice, player_B_id, player_B_choice, drawn_number) ==
    LET drawn_parity == GetParity(drawn_number)
        choice_A == Lower(player_A_choice)
        choice_B == Lower(player_B_choice)
        Details(outcome) ==
            [drawn_number |-> drawn_number, drawn_parity |-> drawn_parity,
             player_A_choice |-> choice_A, player_B_choice |-> choice_B,
             outcome |-> outcome]
    IN  IF choice_A = choice_B
        THEN Outcome(None, << <<player_A_id, 1>>, <<player_B_id, 1>> >>,
                     Details("DRAW"))
        ELSE IF choice_A = drawn_parity
        THEN Outcome(player_A_id, << <<player_A_id, 3>>, <<player_B_id, 0>> >>,
                     Details(player_A_id \o " WINS"))
        ELSE Outcome(player_B_id, << <<player_A_id, 0>>, <<player_B_id, 3>> >>,
                     Details(player_B_id \o " WINS"))

\* handle_player_timeout awarding the single forfeit to the absent player
HandlePlayerTimeout_absentWins(player_A_id, player_B_id, player_A_responded, player_B_responded) ==
    IF ~player_A_responded /\ ~player_B_responded
    THEN [winner |-> None, score |-> << <<player_A_id, 0>>, <<player_B_id, 0>> >>,
          details |-> [outcome |-> "DOUBLE_FORFEIT"]]
    ELSE IF ~player_A_responded
    THEN [winner |-> player_A_id,
          score |-> << <<player_A_id, 3>>, <<player_B_id, 0>> >>,
          details |-> [outcome |-> player_B_id \o "_FORFEIT"]]
    ELSE [winner |-> player_B_id,
          score |-> << <<player_A_id, 0>>, <<player_B_id, 3>> >>,
          details |-> [outcome |-> player_A_id \o "_FORFEIT"]]

\* handle_player_timeout
HandlePlayerTimeout(player_A_id, player_B_id, player_A_responded, player_B_responded) ==
    IF ~player_A_responded /\ ~player_B_responded
    THEN Outcome(None, << <<player_A_id, 0>>, <<player_B_id, 0>> >>,
                 [outcome |-> "DOUBLE_FORFEIT"])
    ELSE IF ~player_A_responded
    THEN Outcome(player_B_id, << <<player_A_id, 0>>, <<player_B_id, 3>> >>,
                 [outcome |-> player_A_id \o "_FORFEIT"])
    ELSE Outcome(player_A_id, << <<player_A_id, 3>>, <<player_B_id, 0>> >>,
                 [outcome |-> player_B_id \o "_FORFEIT"])

\* request_player_choice, lines 97-104, on what send_with_retry returned:
\* None, or the JSON object of the reply. An empty object is falsy.
RequestPlayerChoice(response) ==
    IF response = NoObject \/ DOMAIN response = {}
    THEN None
    ELSE Lower(IF "choice" \in DOMAIN response THEN response.choice ELSE "")

\* Python truth of an Optional[str]
Truthy(str) == str # None /\ str # ""

\* conduct_match, lines 107-119 (step 3)
ResolveMatch(player_A_id, player_B_id, choice_A, choice_B, drawn_number) ==
    IF Truthy(choice_A) /\ Truthy(choice_B)
    THEN CalculateMatchResult(player_A_id, choice_A, player_B_id, choice_B,
                              drawn_number)
    ELSE HandlePlayerTimeout(player_A_id, player_B_id,
                             choice_A # None, choice_B # None)

\* protocol.create_result_report, as the league manager parses it
CreateResultReport(round_id, match_id, outcome) ==
    MatchResult(round_id, match_id,
                IF Truthy(outcome.winner) THEN outcome.winner ELSE None,
                outcome.score)

\* the ids of the two referees' processes
RefereeIds == {"REF01", "REF02"}

\* models.RefereeContext, the fields referee_server.py reads and writes
RefereeContext(state, round_id, match_id, player_A_id, player_B_id) ==
    [state |-> state, current_round_id |-> round_id, current_match_id |-> match_id,
     player_A_id |-> player_A_id, player_B_id |-> player_B_id]

-----------------------------------------------------------------------------
(* server.py: the league manager's handlers and background tasks *)

\* a coroutine held by the event loop: created by asyncio.create_task and not
\* yet run (pc = "created"), or suspended at an await
Task(kind, pc, todo, round_id, snapshot) ==
    [kind |-> kind, pc |-> pc, todo |-> todo, round_id |-> round_id,
     snapshot |-> snapshot]
StartTournamentTask == Task("start_tournament", "created", << >>, None, << >>)
FinishRoundTask == Task("finish_round", "created", << >>, None, << >>)

\* a message handed to httpx for sending, or a banner printed on the console
Message(type, to, round_id, body) ==
    [type |-> type, to |-> to, round_id |-> round_id, body |-> body]

\* what mcp_endpoint did last and answered: a handler's HTTPException(400) is
\* re-raised by the handler's own except clause and then caught by
\* mcp_endpoint's "except Exception", which raises HTTPException(500); detail
\* is the text of the first exception
Reply(op, status, id, detail) ==
    [op |-> op, status |-> status, participant_id |-> id, detail |-> detail]

\* start_round, lines 214-219: the round's matches grouped by referee, in
\* order of first appearance
RefereeMatches(round_matches) ==
    LET n == Len(round_matches)
        firsts == SelectSeq([i \in 1..n |-> i],
                            LAMBDA i : \A j \in 1..(i - 1) :
                                round_matches[j].referee_id # round_matches[i].referee_id)
    IN  [g \in 1..Len(firsts) |->
            [referee_id |-> round_matches[firsts[g]].referee_id,
             matches |-> SelectSeq(round_matches,
                            LAMBDA m : m.referee_id = round_matches[firsts[g]].referee_id)]]

\* send_round_announcement's payload for one referee
Announcement(round_num, group) ==
    Message("ROUND_ANNOUNCEMENT", group.referee_id, "R" \o ToString(round_num),
            group.matches)

\* start_round(round_num) up to its first await: the first announcement is
\* handed to httpx; the rest wait in the task. Gives the task (or NoObject
\* when there is nothing to send) and the message sent.
StartRound(sched, round_num) ==
    LET groups == RefereeMatches(GetRoundMatches(sched, round_num))
    IN  IF groups = << >>
        THEN [task |-> NoObject, sent |-> EmptyBag]
        ELSE [task |-> Task("start_round", "announce", Tail(groups),
                            "R" \o ToString(round_num), << >>),
              sent |-> SetToBag({Announcement(round_num, Head(groups))})]

AddTask(bag, t) == IF t = NoObject THEN bag ELSE bag (+) SetToBag({t})
DropTask(bag, t) == bag (-) SetToBag({t})

\* handle_referee_registration
HandleRefereeRegistration(request, wellformed) ==
    /\ regs_left > 0
    /\ regs_left' = regs_left - 1
    /\ IF ~wellformed \/ RefereeLimitReached
       THEN /\ lm_reply' = Reply("register_referee", 500, None,
                                 IF ~wellformed THEN "validation error"
                                 ELSE "Registration limit reached")
            /\ UNCHANGED <<referees, referee_count, tokens_issued, tasks>>
       ELSE /\ referee_count' = referee_count + 1
            /\ tokens_issued' = tokens_issued + 1
            /\ referees' = DictSet(referees, NewRefereeId,
                                   Participant(NewRefereeId, request, GenerateToken))
            /\ tasks' = IF AllRegistered(referee_count', player_count)
                        THEN AddTask(tasks, StartTournamentTask) ELSE tasks
            /\ lm_reply' = Reply("register_referee", 200, NewRefereeId, "ACCEPTED")
    /\ UNCHANGED <<players, player_count, standings, scheduler, current_round,
                   match_results, tournament_started, outbox, reports_left>>
    /\ UNCHANGED <<netVars, schVars, gameVars, refVars, ledVars>>

\* handle_player_registration
HandlePlayerRegistration(request, wellformed) ==
    /\ regs_left > 0
    /\ regs_left' = regs_left - 1
    /\ IF ~wellformed \/ PlayerLimitReached
       THEN /\ lm_reply' = Reply("register_player", 500, None,
                                 IF ~wellformed THEN "validation error"
                                 ELSE "Registration limit reached")
            /\ UNCHANGED <<players, player_count, tokens_issued, standings, tasks>>
       ELSE /\ player_count' = player_count + 1
            /\ tokens_issued' = tokens_issued + 1
            /\ players' = DictSet(players, NewPlayerId,
                                  Participant(NewPlayerId, request, GenerateToken))
            /\ standings' = DictSet(standings, NewPlayerId,
                                    NewStandingsData(request.display_name))
            /\ tasks' = IF AllRegistered(referee_count, player_count')
                        THEN AddTask(tasks, StartTournamentTask) ELSE tasks
            /\ lm_reply' = Reply("register_player", 200, NewPlayerId, "ACCEPTED")
    /\ UNCHANGED <<referees, referee_count, scheduler, current_round,
                   match_results, tournament_started, outbox, reports_left>>
    /\ UNCHANGED <<netVars, schVars, gameVars, refVars, ledVars>>

\* start_tournament, from the task's first run to its first await (inside
\* start_round) or its return
RunStartTournament ==
    \E t \in BagToSet(tasks) :
        /\ t.kind = "start_tournament" /\ t.pc = "created"
        /\ IF tournament_started
           THEN /\ tasks' = DropTask(tasks, t)
                /\ UNCHANGED <<scheduler, tournament_started, current_round, outbox>>
           ELSE LET sched == GenerateSchedule(
                                NewScheduler(DictKeys(players), DictKeys(referees)))
                    start == StartRound(sched, 1)
                IN  /\ tournament_started' = TRUE
                    /\ scheduler' = sched
                    /\ IF ~ValidateSchedule(sched)
                       THEN /\ tasks' = DropTask(tasks, t)
                            /\ UNCHANGED <<current_round, outbox>>
                       ELSE /\ current_round' = 1
                            /\ tasks' = AddTask(DropTask(tasks, t), start.task)
                            /\ outbox' = outbox (+) start.sent
        /\ UNCHANGED <<referees, players, referee_count, player_count, tokens_issued,
                       standings, match_results, lm_reply, regs_left, reports_left>>
        /\ UNCHANGED <<netVars, schVars, gameVars, refVars, ledVars>>

\* start_round resumed: the announcement in flight has completed (delivered
\* or failed, the result is not looked at); the next one is sent, or
\* start_round and the coroutine awaiting it return
AnnounceNext ==
    \E t \in BagToSet(tasks) :
        /\ t.pc = "announce"
        /\ IF t.todo = << >>
           THEN /\ tasks' = DropTask(tasks, t)
                /\ UNCHANGED outbox
           ELSE /\ tasks' = AddTask(DropTask(tasks, t), [t EXCEPT !.todo = Tail(@)])
                /\ outbox' = outbox (+) SetToBag({
                       Message("ROUND_ANNOUNCEMENT", Head(t.todo).referee_id,
                               t.round_id, Head(t.todo).matches)})
        /\ UNCHANGED <<referees, players, referee_count, player_count, tokens_issued,
                       standings, scheduler, current_round, match_results,
                       tournament_started, lm_reply, regs_left, reports_left>>
        /\ UNCHANGED <<netVars, schVars, gameVars, refVars, ledVars>>

\* the reports referees send in the runs of the model, each the outcome
\* conduct_match computes for a match of the roster's schedule when player A
\* answers "odd", player B as listed, and the drawn number is 1:
\* R1M1 won by A, R1M2 drawn, R2M1 drawn
RosterSchedule ==
    GenerateSchedule(NewScheduler(<<"P01", "P02", "P03", "P04">>,
                                  <<"REF01", "REF02">>)).schedule
ReportedMatches == {<<1, 1, "even">>, <<1, 2, "odd">>, <<2, 1, "odd">>}
ReportPool ==
    {CreateResultReport("R" \o ToString(x[1]), RosterSchedule[x[1]][x[2]].match_id,
                        ResolveMatch(RosterSchedule[x[1]][x[2]].player_A_id,
                                     RosterSchedule[x[1]][x[2]].player_B_id,
                                     "odd", x[3], 1)) :
        x \in ReportedMatches}

\* the referee of a match reports it after the round's announcement named it
Announced(result) ==
    \E m \in BagToSet(outbox) :
        /\ m.type = "ROUND_ANNOUNCEMENT"
        /\ m.round_id = result.round_id
        /\ \E i \in 1..Len(m.body) : m.body[i].match_id = result.match_id

\* the round counted complete only when every match of the whole schedule has
\* a stored result
RoundComplete_wholeSchedule(sched, round_num, results) ==
    LET all == AllMatches(sched.schedule)
    IN  \A i \in 1..Len(all) : all[i].match_id \in DOMAIN results

\* handle_match_result, lines 159-163: every match of the current round has a
\* stored result
RoundComplete(sched, round_num, results) ==
    LET round_matches == GetRoundMatches(sched, round_num)
    IN  \A i \in 1..Len(round_matches) : round_matches[i].match_id \in DOMAIN results

\* handle_match_result: an exception (KeyError in the ledger, AttributeError
\* on scheduler = None) ends the handler where it is raised
HandleMatchResult(result) ==
    /\ LET upd == UpdateFromResult(standings, result)
       IN  /\ standings' = upd.standings
           /\ IF upd.raised
              THEN /\ lm_reply' = Reply("match_result", 500, None, "KeyError")
                   /\ UNCHANGED <<match_results, tasks>>
              ELSE /\ match_results' = DictSet(match_results, result.match_id, result)
                   /\ IF scheduler = NoObject
                      THEN /\ lm_reply' = Reply("match_result", 500, None,
                                                "AttributeError")
                           /\ UNCHANGED tasks
                      ELSE /\ tasks' = IF RoundComplete(scheduler, current_round,
                                                        match_results')
                                       THEN AddTask(tasks, FinishRoundTask) ELSE tasks
                           /\ lm_reply' = Reply("match_result", 200, None, "acknowledged")
    /\ UNCHANGED <<referees, players, referee_count, player_count, tokens_issued,
                   scheduler, current_round, tournament_started, outbox, regs_left>>
    /\ UNCHANGED <<failures_left, send_failed, schVars, gameVars, refVars, ledVars>>

\* send_standings_update's payload for one player
StandingsUpdate(player_id, round_id, snapshot) ==
    Message("LEAGUE_STANDINGS_UPDATE", player_id, round_id, snapshot)

\* finish_round, lines 257-267, after broadcast_standings has returned: the
\* tournament ends, or the results are cleared and the coroutine sleeps
AfterBroadcast(t, bag, sent) ==
    IF current_round >= GetTotalRounds(scheduler)
    THEN /\ tasks' = bag
         /\ outbox' = sent (+) SetToBag({
                Message("TOURNAMENT_COMPLETE", "console", None,
                        GetSortedStandings(standings))})
         /\ UNCHANGED match_results
    ELSE /\ tasks' = AddTask(bag, [t EXCEPT !.pc = "sleep", !.todo = << >>])
         /\ outbox' = sent
         /\ match_results' = EmptyDict

\* finish_round, from the task's first run to its first await (the first
\* standings update of broadcast_standings)
RunFinishRound ==
    \E t \in BagToSet(tasks) :
        /\ t.kind = "finish_round" /\ t.pc = "created"
        /\ LET ids == DictKeys(players)
               round_id == "R" \o ToString(current_round)
               snapshot == GetSortedStandings(standings)
               t1 == [t EXCEPT !.round_id = round_id, !.snapshot = snapshot]
           IN  IF ids = << >>
               THEN AfterBroadcast(t1, DropTask(tasks, t), outbox)
               ELSE /\ tasks' = AddTask(DropTask(tasks, t),
                                        [t1 EXCEPT !.pc = "broadcast", !.todo = Tail(ids)])
                    /\ outbox' = outbox (+) SetToBag({
                           StandingsUpdate(Head(ids), round_id, snapshot)})
                    /\ UNCHANGED match_results
        /\ UNCHANGED <<referees, players, referee_count, player_count, tokens_issued,
                       standings, scheduler, current_round, tournament_started,
                       lm_reply, regs_left, reports_left>>
        /\ UNCHANGED <<netVars, schVars, gameVars, refVars, ledVars>>

\* the player whose standings update a broadcasting task has in flight
InFlight(t) ==
    LET ids == DictKeys(players) IN ids[Len(ids) - Len(t.todo)]

\* broadcast_standings with a failed send raising out of finish_round
BroadcastNext_failureAborts ==
    \E t \in BagToSet(tasks), delivered \in BOOLEAN :
        /\ t.pc = "broadcast"
        /\ IF delivered
           THEN /\ UNCHANGED <<failures_left, send_failed>>
                /\ IF t.todo = << >>
                   THEN AfterBroadcast(t, DropTask(tasks, t), outbox)
                   ELSE /\ tasks' = AddTask(DropTask(tasks, t), [t EXCEPT !.todo = Tail(@)])
                        /\ outbox' = outbox (+) SetToBag({
                               StandingsUpdate(Head(t.todo), t.round_id, t.snapshot)})
                        /\ UNCHANGED match_results
           ELSE /\ failures_left > 0
                /\ failures_left' = failures_left - 1
                /\ send_failed' = send_failed \cup {<<InFlight(t), t.round_id>>}
                /\ tasks' = DropTask(tasks, t)
                /\ UNCHANGED <<outbox, match_results>>
        /\ UNCHANGED <<referees, players, referee_count, player_count, tokens_issued,
                       standings, scheduler, current_round, tournament_started,
                       lm_reply, regs_left, reports_left>>
        /\ UNCHANGED <<resends_left, schVars, gameVars, refVars, ledVars>>

\* broadcast_standings resumed: the update in flight has completed, delivered
\* or failed (send_standings_update catches every exception and returns
\* False, which broadcast_standings drops); the next one is sent, or the
\* broadcast returns and finish_round goes on
BroadcastNext ==
    \E t \in BagToSet(tasks), delivered \in BOOLEAN :
        /\ t.pc = "broadcast"
        /\ IF delivered
           THEN UNCHANGED <<failures_left, send_failed>>
           ELSE /\ failures_left > 0
                /\ failures_left' = failures_left - 1
                /\ send_failed' = send_failed \cup {<<InFlight(t), t.round_id>>}
        /\ IF t.todo = << >>
           THEN AfterBroadcast(t, DropTask(tasks, t), outbox)
           ELSE /\ tasks' = AddTask(DropTask(tasks, t), [t EXCEPT !.todo = Tail(@)])
                /\ outbox' = outbox (+) SetToBag({
                       StandingsUpdate(Head(t.todo), t.round_id, t.snapshot)})
                /\ UNCHANGED match_results
        /\ UNCHANGED <<referees, players, referee_count, player_count, tokens_issued,
                       standings, scheduler, current_round, tournament_started,
                       lm_reply, regs_left, reports_left>>
        /\ UNCHANGED <<resends_left, schVars, gameVars, refVars, ledVars>>

\* finish_round, lines 269-271, after asyncio.sleep(60): the next round starts
WakeFinishRound ==
    \E t \in BagToSet(tasks) :
        /\ t.pc = "sleep"
        /\ LET start == StartRound(scheduler, current_round + 1)
           IN  /\ current_round' = current_round + 1
               /\ tasks' = AddTask(DropTask(tasks, t), start.task)
               /\ outbox' = outbox (+) start.sent
        /\ UNCHANGED <<referees, players, referee_count, player_count, tokens_issued,
                       standings, scheduler, match_results, tournament_started,
                       lm_reply, regs_left, reports_left>>
        /\ UNCHANGED <<netVars, schVars, gameVars, refVars, ledVars>>

-----------------------------------------------------------------------------
(* The league manager under arbitrary registrations and result reports *)

\* server.py lines 29-38 and the constructors of the managers
LMInit ==
    /\ referees = EmptyDict
    /\ players = EmptyDict
    /\ referee_count = 0
    /\ player_count = 0
    /\ tokens_issued = 0
    /\ standings = EmptyDict
    /\ scheduler = NoObject
    /\ current_round = 0
    /\ match_results = EmptyDict
    /\ tournament_started = FALSE
    /\ tasks = EmptyBag
    /\ outbox = EmptyBag
    /\ lm_reply = Reply("none", 0, None, "")
    /\ regs_left = MaxRegs
    /\ reports_left = ReportPool
    /\ resends_left = 0
    /\ failures_left = 0
    /\ send_failed = {}

\* the scheduler and game-logic harnesses at rest
SchIdle ==
    /\ sch_players = << >>
    /\ sch_referees = << >>
    /\ sch = NoObject
    /\ sch_other = NoObject
    /\ sch_valid = "unknown"
    /\ sch_edits = 0
GameIdle ==
    /\ g_match = NoObject
    /\ g_reply_A = NoObject
    /\ g_reply_B = NoObject
    /\ g_choice_A = None
    /\ g_choice_B = None
    /\ g_drawn = 0
    /\ g_pc = "idle"
    /\ g_result = NoObject

\* the referee's server as main.register_referee and startup leave it: the
\* context is IDLE, no announcement has arrived
RefIdle ==
    /\ context = [ref \in RefereeIds |-> RefereeContext("IDLE", None, None, None, None)]
    /\ conduct = << >>
    /\ ref_reply = [status |-> "none", round_id |-> None]
    /\ announcements_left = {}

\* a StandingsManager nobody has called: it holds no row yet
LedIdle ==
    /\ ledger = EmptyDict
    /\ ledger_op = NoObject
    /\ ledger_calls = 0

Init == LMInit /\ SchIdle /\ GameIdle /\ RefIdle /\ LedIdle

RefereeRegisters ==
    \E request \in RefereeRequests, wellformed \in BOOLEAN :
        HandleRefereeRegistration(request, wellformed)
PlayerRegisters ==
    \E request \in PlayerRequests, wellformed \in BOOLEAN :
        HandlePlayerRegistration(request, wellformed)
\* a referee reports a match of the pool, once
ResultReported ==
    \E result \in reports_left :
        /\ Announced(result)
        /\ Cardinality(ReportPool \ reports_left) < MaxReports
        /\ reports_left' = reports_left \ {result}
        /\ UNCHANGED resends_left
        /\ HandleMatchResult(result)

Next ==
    \/ RefereeRegisters
    \/ PlayerRegisters
    \/ ResultReported
    \/ RunStartTournament
    \/ AnnounceNext
    \/ RunFinishRound
    \/ BroadcastNext
    \/ WakeFinishRound

Spec == Init /\ [][Next]_vars

-----------------------------------------------------------------------------
(* TournamentScheduler on its own: schedules of any 4 player ids and 2
   referee ids in any order, and the schedule built from a reordering *)

PlayerIdPool == {"P01", "P02", "P04", "P10", "P2"}
RefereeIdPool == {"REF01", "REF02", "REF1"}

\* the lists of n distinct ids of a pool
DistinctLists(pool, n) ==
    {l \in [1..n -> pool] : \A i, j \in 1..n : i # j => l[i] # l[j]}
\* the reorderings of a list
Reorderings(l) ==
    {[i \in 1..Len(l) |-> l[p[i]]] :
        p \in {q \in [1..Len(l) -> 1..Len(l)] :
                 \A i, j \in 1..Len(l) : i # j => q[i] # q[j]}}

SchedInit ==
    /\ sch_players \in DistinctLists(PlayerIdPool, 4)
    /\ sch_referees \in DistinctLists(RefereeIdPool, 2)
    /\ sch = NoObject
    /\ sch_other = NoObject
    /\ sch_valid = "unknown"
    /\ sch_edits = 0

\* scheduler = TournamentScheduler(player_ids, referee_ids);
\* scheduler.generate_schedule()
SchGenerate ==
    /\ sch = NoObject
    /\ sch' = GenerateSchedule(NewScheduler(sch_players, sch_referees))
    /\ UNCHANGED <<sch_players, sch_referees, sch_other, sch_valid, sch_edits>>
    /\ UNCHANGED <<lmVars, gameVars, refVars, ledVars>>

\* the same, from the same ids handed over in another order
SchGenerateOther ==
    /\ sch # NoObject
    /\ sch_other = NoObject
    /\ sch_valid = "unknown"
    /\ \E ps \in Reorderings(sch_players), rs \in Reorderings(sch_referees) :
          sch_other' = [player_ids_given |-> ps, referee_ids_given |-> rs,
                        scheduler |-> GenerateSchedule(NewScheduler(ps, rs))]
    /\ UNCHANGED <<sch_players, sch_referees, sch, sch_valid, sch_edits>>
    /\ UNCHANGED <<lmVars, gameVars, refVars, ledVars>>

\* scheduler.validate_schedule()
SchValidate ==
    /\ sch # NoObject
    /\ sch_other = NoObject
    /\ sch_valid = "unknown"
    /\ sch_valid' = IF ValidateSchedule(sch) THEN "True" ELSE "False"
    /\ UNCHANGED <<sch_players, sch_referees, sch, sch_other, sch_edits>>
    /\ UNCHANGED <<lmVars, gameVars, refVars, ledVars>>

SchedNext == SchGenerate \/ SchGenerateOther \/ SchValidate

SchedSpecInit == LMInit /\ SchedInit /\ GameIdle /\ RefIdle /\ LedIdle
SpecSched == SchedSpecInit /\ [][SchedNext]_vars

-----------------------------------------------------------------------------
(* validate_schedule on corrupted schedules: the roster's schedule with up
   to MaxEdits matches changed or removed *)

Roster == <<"P01", "P02", "P03", "P04">>
RosterReferees == <<"REF01", "REF02">>

ValidateInit ==
    /\ sch_players = Roster
    /\ sch_referees = RosterReferees
    /\ sch = NoObject
    /\ sch_other = NoObject
    /\ sch_valid = "unknown"
    /\ sch_edits = 0

\* a caller overwrites one side of a scheduled match with another roster player
SchSetPlayer ==
    /\ sch # NoObject
    /\ sch_edits < MaxEdits
    /\ \E r \in 1..Len(sch.schedule) :
       \E m \in 1..Len(sch.schedule[r]) :
       \E side \in {"A", "B"} :
       \E p \in {Roster[i] : i \in 1..Len(Roster)} :
          /\ p # (IF side = "A" THEN sch.schedule[r][m].player_A_id
                  ELSE sch.schedule[r][m].player_B_id)
          /\ sch' = IF side = "A"
                    THEN [sch EXCEPT !.schedule[r][m].player_A_id = p]
                    ELSE [sch EXCEPT !.schedule[r][m].player_B_id = p]
    /\ sch_edits' = sch_edits + 1
    /\ sch_valid' = "unknown"
    /\ UNCHANGED <<sch_players, sch_referees, sch_other>>
    /\ UNCHANGED <<lmVars, gameVars, refVars, ledVars>>

\* a caller deletes one match of a round
SchRemoveMatch ==
    /\ sch # NoObject
    /\ sch_edits < MaxEdits
    /\ \E r \in 1..Len(sch.schedule) :
       \E m \in 1..Len(sch.schedule[r]) :
          sch' = [sch EXCEPT !.schedule[r] =
                    SubSeq(@, 1, m - 1) \o SubSeq(@, m + 1, Len(@))]
    /\ sch_edits' = sch_edits + 1
    /\ sch_valid' = "unknown"
    /\ UNCHANGED <<sch_players, sch_referees, sch_other>>
    /\ UNCHANGED <<lmVars, gameVars, refVars, ledVars>>

ValidateNext == SchGenerate \/ SchSetPlayer \/ SchRemoveMatch \/ SchValidate

ValidateSpecInit == LMInit /\ ValidateInit /\ GameIdle /\ RefIdle /\ LedIdle
SpecValidate == ValidateSpecInit /\ [][ValidateNext]_vars

-----------------------------------------------------------------------------
(* The referee's outcome computation on its own: calculate_match_result
   called directly, and step 3 of conduct_match on what the two choice
   requests ended with *)

\* the matches a referee is handed: those of the roster's schedule
GameMatches == {RosterSchedule[r][i] : r \in 1..3, i \in 1..2}
\* the choice strings handed to calculate_match_result
ChoicePool == {"odd", "even", "ODD", "Even", "oDd", "EVEN"}
\* what send_with_retry returns for a choice request: None (timeouts,
\* connection failures, an HTTP error status), or the reply's JSON object
ReplyPool ==
    {NoObject, EmptyDict, [status |-> "ok"]}
    \cup {[choice |-> c] : c \in {"odd", "even", "ODD", "Even", "", "maybe"}}
\* random.randint(1, 10)
DrawPool == 1..10

\* calculate_match_result(A, choice_A, B, choice_B, drawn_number)
GameCalculate ==
    \E m \in GameMatches, cA \in ChoicePool, cB \in ChoicePool, d \in DrawPool :
        /\ g_pc = "idle"
        /\ g_match' = m
        /\ g_reply_A' = NoObject
        /\ g_reply_B' = NoObject
        /\ g_choice_A' = cA
        /\ g_choice_B' = cB
        /\ g_drawn' = d
        /\ g_result' = CalculateMatchResult(m.player_A_id, cA, m.player_B_id, cB, d)
        /\ g_pc' = "calculated"
        /\ UNCHANGED <<lmVars, schVars, refVars, ledVars>>

\* conduct_match, lines 104-119: both choice requests have ended, the
\* outcome is computed
GameResolve ==
    \E m \in GameMatches, rA \in ReplyPool, rB \in ReplyPool, d \in DrawPool :
        /\ g_pc = "idle"
        /\ g_match' = m
        /\ g_reply_A' = rA
        /\ g_reply_B' = rB
        /\ g_choice_A' = RequestPlayerChoice(rA)
        /\ g_choice_B' = RequestPlayerChoice(rB)
        /\ g_drawn' = d
        /\ g_result' = ResolveMatch(m.player_A_id, m.player_B_id,
                                    g_choice_A', g_choice_B', d)
        /\ g_pc' = "resolved"
        /\ UNCHANGED <<lmVars, schVars, refVars, ledVars>>

GameNext == GameCalculate \/ GameResolve

GameSpecInit == LMInit /\ SchIdle /\ GameIdle /\ RefIdle /\ LedIdle
SpecGame == GameSpecInit /\ [][GameNext]_vars

-----------------------------------------------------------------------------
(* referee: referee_server.py and http_client.py, the referee's server *)

\* config.MAX_RETRIES
MAX_RETRIES == 3

\* the value of a reply's "choice" field when it is not a JSON string (null,
\* a number): the one value str.lower() cannot be called on
JsonNull == "<null>"

\* a Python bool held in a local that starts unassigned (None)
PyBool(b) == IF b THEN "True" ELSE "False"

\* a conduct_match(round_id, match_data) coroutine of a referee's process and
\* its locals; pc is
\* "created" (asyncio.create_task has it, it has not run), the await it is
\* suspended at ("invite_A", "invite_B", "choice_A", "choice_B", "report"),
\* "done" (returned) or "raised" (an exception ended it); attempt is the
\* loop variable of the send_with_retry call it is in, post the last POST
\* that ended in it
ConductMatch(referee, round_id, match_data) ==
    [referee |-> referee, round_id |-> round_id, match_id |-> match_data.match_id,
     player_A_id |-> match_data.player_A_id, player_B_id |-> match_data.player_B_id,
     pc |-> "created", attempt |-> 0,
     invite_A_success |-> None, invite_B_success |-> None,
     choice_A |-> None, choice_B |-> None,
     result_report |-> NoObject, reported |-> None, post |-> NoObject]

\* how one POST of send_with_retry ends: "reply" (a 2xx status and a JSON
\* body), "http_error" (raise_for_status raised HTTPStatusError) or "timeout"
\* (TimeoutException, or any other exception: connection refused, a body
\* that is not JSON)
AttemptKinds == {"reply", "http_error", "timeout"}

\* the POST that ended last in a conduct_match coroutine: the value of the
\* loop variable, how the POST ended and, for a reply, its JSON body
Post(attempt, kind, json) ==
    [attempt |-> attempt, kind |-> kind,
     json |-> IF kind = "reply" THEN json ELSE NoObject]

\* send_with_retry going on to the next attempt also when the status is an error
SendWithRetry_retryOnHttpError(attempt, kind, json) ==
    IF kind = "reply" THEN [returned |-> TRUE, value |-> json]
    ELSE IF attempt < MAX_RETRIES - 1 THEN [returned |-> FALSE, value |-> NoObject]
    ELSE [returned |-> TRUE, value |-> NoObject]

\* send_with_retry when the POST of attempt number `attempt` has ended:
\* the call returns (the JSON body, or None), or sleeps and posts again
SendWithRetry(attempt, kind, json) ==
    IF kind = "reply" THEN [returned |-> TRUE, value |-> json]
    ELSE IF kind = "http_error" THEN [returned |-> TRUE, value |-> NoObject]
    ELSE IF attempt < MAX_RETRIES - 1 THEN [returned |-> FALSE, value |-> NoObject]
    ELSE [returned |-> TRUE, value |-> NoObject]

\* request_player_choice, line 99: response.get("choice", "").lower() raises
\* AttributeError when the field's value is not a string
RequestPlayerChoiceRaises(response) ==
    /\ response # NoObject
    /\ DOMAIN response # {}
    /\ "choice" \in DOMAIN response
    /\ response.choice = JsonNull

\* handle_round_announcement
HandleRoundAnnouncement(params) ==
    /\ params \in announcements_left
    /\ announcements_left' = announcements_left \ {params}
    /\ IF context[params.to].state = "CONDUCTING_MATCH"
       THEN /\ ref_reply' = [status |-> "busy", round_id |-> params.round_id]
            /\ UNCHANGED conduct
       ELSE /\ ref_reply' = [status |-> "acknowledged", round_id |-> params.round_id]
            /\ conduct' = conduct \o [k \in 1..Len(params.body) |->
                                         ConductMatch(params.to, params.round_id,
                                                      params.body[k])]
    /\ UNCHANGED context
    /\ UNCHANGED <<lmVars, schVars, gameVars, ledVars>>

\* conduct_match from its first run to its first await: the context is
\* written and the invitation to player A is posted (both players of a
\* scheduled match are in config.PLAYER_PORT_MAP)
ConductMatchStarts(i) ==
    /\ conduct[i].pc = "created"
    /\ context' = [context EXCEPT ![conduct[i].referee] =
                      RefereeContext("CONDUCTING_MATCH", conduct[i].round_id,
                                     conduct[i].match_id, conduct[i].player_A_id,
                                     conduct[i].player_B_id)]
    /\ conduct' = [conduct EXCEPT ![i].pc = "invite_A"]
    /\ UNCHANGED <<ref_reply, announcements_left>>
    /\ UNCHANGED <<lmVars, schVars, gameVars, ledVars>>

\* conduct_match asking player A for a choice before player B is invited
InvitationAEnds_choiceFirst(i, kind, json) ==
    /\ conduct[i].pc = "invite_A"
    /\ LET r == SendWithRetry(conduct[i].attempt, kind, json)
       IN  conduct' =
              IF ~r.returned
              THEN [conduct EXCEPT ![i].post = Post(conduct[i].attempt, kind, json),
                               ![i].attempt = @ + 1]
              ELSE [conduct EXCEPT ![i].post = Post(conduct[i].attempt, kind, json),
                               ![i].invite_A_success = PyBool(r.value # NoObject),
                                   ![i].pc = "choice_A", ![i].attempt = 0]
    /\ UNCHANGED <<context, ref_reply, announcements_left>>
    /\ UNCHANGED <<lmVars, schVars, gameVars, ledVars>>

\* a POST of send_invitation_to_player(player_A_id) has ended; when the call
\* returns, the invitation to player B is posted
InvitationAEnds(i, kind, json) ==
    /\ conduct[i].pc = "invite_A"
    /\ LET r == SendWithRetry(conduct[i].attempt, kind, json)
       IN  conduct' =
              IF ~r.returned
              THEN [conduct EXCEPT ![i].post = Post(conduct[i].attempt, kind, json),
                               ![i].attempt = @ + 1]
              ELSE [conduct EXCEPT ![i].post = Post(conduct[i].attempt, kind, json),
                               ![i].invite_A_success = PyBool(r.value # NoObject),
                                   ![i].pc = "invite_B", ![i].attempt = 0]
    /\ UNCHANGED <<context, ref_reply, announcements_left>>
    /\ UNCHANGED <<lmVars, schVars, gameVars, ledVars>>

\* a POST of send_invitation_to_player(player_B_id) has ended; when the call
\* returns, a failure is logged and the choice request to player A is posted
InvitationBEnds(i, kind, json) ==
    /\ conduct[i].pc = "invite_B"
    /\ LET r == SendWithRetry(conduct[i].attempt, kind, json)
       IN  conduct' =
              IF ~r.returned
              THEN [conduct EXCEPT ![i].post = Post(conduct[i].attempt, kind, json),
                               ![i].attempt = @ + 1]
              ELSE [conduct EXCEPT ![i].post = Post(conduct[i].attempt, kind, json),
                               ![i].invite_B_success = PyBool(r.value # NoObject),
                                   ![i].pc = "choice_A", ![i].attempt = 0]
    /\ UNCHANGED <<context, ref_reply, announcements_left>>
    /\ UNCHANGED <<lmVars, schVars, gameVars, ledVars>>

\* a POST of request_player_choice(player_A_id) has ended; when the call
\* returns, the choice request to player B is posted; when it raises,
\* conduct_match ends there
ChoiceAEnds(i, kind, json) ==
    /\ conduct[i].pc = "choice_A"
    /\ LET r == SendWithRetry(conduct[i].attempt, kind, json)
       IN  conduct' =
              IF ~r.returned
              THEN [conduct EXCEPT ![i].post = Post(conduct[i].attempt, kind, json),
                               ![i].attempt = @ + 1]
              ELSE IF RequestPlayerChoiceRaises(r.value)
              THEN [conduct EXCEPT ![i].post = Post(conduct[i].attempt, kind, json),
                               ![i].pc = "raised"]
              ELSE [conduct EXCEPT ![i].post = Post(conduct[i].attempt, kind, json),
                               ![i].choice_A = RequestPlayerChoice(r.value),
                                   ![i].pc = "choice_B", ![i].attempt = 0]
    /\ UNCHANGED <<context, ref_reply, announcements_left>>
    /\ UNCHANGED <<lmVars, schVars, gameVars, ledVars>>

\* a POST of request_player_choice(player_B_id) has ended; when the call
\* returns, the outcome is computed (steps 3 and 4) and the result report is
\* posted to the league manager; when it raises, conduct_match ends there
ChoiceBEnds(i, kind, json, drawn_number) ==
    /\ conduct[i].pc = "choice_B"
    /\ LET r == SendWithRetry(conduct[i].attempt, kind, json)
           choice_B == RequestPlayerChoice(r.value)
           outcome == ResolveMatch(conduct[i].player_A_id, conduct[i].player_B_id,
                                   conduct[i].choice_A, choice_B, drawn_number)
       IN  conduct' =
              IF ~r.returned
              THEN [conduct EXCEPT ![i].post = Post(conduct[i].attempt, kind, json),
                               ![i].attempt = @ + 1]
              ELSE IF RequestPlayerChoiceRaises(r.value)
              THEN [conduct EXCEPT ![i].post = Post(conduct[i].attempt, kind, json),
                               ![i].pc = "raised"]
              ELSE [conduct EXCEPT ![i].post = Post(conduct[i].attempt, kind, json),
                               ![i].choice_B = choice_B,
                                   ![i].result_report =
                                       CreateResultReport(conduct[i].round_id,
                                                          conduct[i].match_id, outcome),
                                   ![i].pc = "report", ![i].attempt = 0]
    /\ UNCHANGED <<context, ref_reply, announcements_left>>
    /\ UNCHANGED <<lmVars, schVars, gameVars, ledVars>>

\* a POST of report_result_to_league_manager has ended; when the call
\* returns, its result is dropped, the context is reset and conduct_match
\* returns
ReportEnds(i, kind, json) ==
    /\ conduct[i].pc = "report"
    /\ LET r == SendWithRetry(conduct[i].attempt, kind, json)
       IN  IF ~r.returned
           THEN /\ conduct' = [conduct EXCEPT ![i].post = Post(conduct[i].attempt, kind, json),
                               ![i].attempt = @ + 1]
                /\ UNCHANGED context
           ELSE /\ conduct' = [conduct EXCEPT ![i].post = Post(conduct[i].attempt, kind, json),
                               ![i].reported = PyBool(r.value # NoObject),
                                              ![i].pc = "done", ![i].attempt = 0]
                /\ context' = [context EXCEPT
                                   ![conduct[i].referee].state = "IDLE",
                                   ![conduct[i].referee].current_match_id = None,
                                   ![conduct[i].referee].player_A_id = None,
                                   ![conduct[i].referee].player_B_id = None]
    /\ UNCHANGED <<ref_reply, announcements_left>>
    /\ UNCHANGED <<lmVars, schVars, gameVars, ledVars>>

-----------------------------------------------------------------------------
(* The referee's server under ROUND_ANNOUNCEMENTs arriving at any moment,
   with players and a league manager that answer every request *)

\* the ROUND_ANNOUNCEMENTs the league manager sends to REF01 for the roster's
\* schedule, one per round
RefereeRounds == {1, 2, 3}
RoundAnnouncements(rounds) ==
    LET Groups(r) == RefereeMatches(RosterSchedule[r])
    IN  UNION {{Announcement(r, Groups(r)[g]) :
                   g \in {k \in 1..2 : Groups(r)[k].referee_id = "REF01"}} :
               r \in rounds}

\* the acknowledgement a player or the league manager answers a message with
Ack == [status |-> "ok"]
\* the answer of a player to a choice request
OddChoice == [choice |-> "odd"]

RefereeInit ==
    /\ context = [ref \in RefereeIds |-> RefereeContext("IDLE", None, None, None, None)]
    /\ conduct = << >>
    /\ ref_reply = [status |-> "none", round_id |-> None]
    /\ announcements_left = RoundAnnouncements(RefereeRounds)

RefAnnounced == \E params \in announcements_left : HandleRoundAnnouncement(params)
RefMatchStarts == \E i \in DOMAIN conduct : ConductMatchStarts(i)
RefInvitedA == \E i \in DOMAIN conduct : InvitationAEnds(i, "reply", Ack)
RefInvitedB == \E i \in DOMAIN conduct : InvitationBEnds(i, "reply", Ack)
RefChoiceA == \E i \in DOMAIN conduct : ChoiceAEnds(i, "reply", OddChoice)
RefChoiceB ==
    \E i \in DOMAIN conduct, d \in DrawPool : ChoiceBEnds(i, "reply", OddChoice, d)
RefReported == \E i \in DOMAIN conduct : ReportEnds(i, "reply", Ack)

RefereeNext ==
    \/ RefAnnounced
    \/ RefMatchStarts
    \/ RefInvitedA
    \/ RefInvitedB
    \/ RefChoiceA
    \/ RefChoiceB
    \/ RefReported

RefereeSpecInit == LMInit /\ SchIdle /\ GameIdle /\ RefereeInit /\ LedIdle
SpecReferee == RefereeSpecInit /\ [][RefereeNext]_vars

-----------------------------------------------------------------------------
(* The referee conducting one match with players and a league manager that
   may answer, answer badly, or not answer at all *)

\* the round announced to the referee
MatchRounds == {1}
\* what a player's 2xx reply to a choice request can hold: a choice, no
\* choice field, a choice that is not a string
ChoiceReplies == {OddChoice, Ack, [choice |-> JsonNull]}

MatchInit ==
    /\ context = [ref \in RefereeIds |-> RefereeContext("IDLE", None, None, None, None)]
    /\ conduct = << >>
    /\ ref_reply = [status |-> "none", round_id |-> None]
    /\ announcements_left = RoundAnnouncements(MatchRounds)

MatchAnnounced == \E params \in announcements_left : HandleRoundAnnouncement(params)
MatchStarts == \E i \in DOMAIN conduct : ConductMatchStarts(i)
MatchInvitationA ==
    \E i \in DOMAIN conduct, kind \in AttemptKinds : InvitationAEnds(i, kind, Ack)
MatchInvitationB ==
    \E i \in DOMAIN conduct, kind \in AttemptKinds : InvitationBEnds(i, kind, Ack)
MatchChoiceA ==
    \E i \in DOMAIN conduct, kind \in AttemptKinds, json \in ChoiceReplies :
        ChoiceAEnds(i, kind, json)
MatchChoiceB ==
    \E i \in DOMAIN conduct, kind \in AttemptKinds, json \in ChoiceReplies, d \in DrawPool :
        ChoiceBEnds(i, kind, json, d)
MatchReport ==
    \E i \in DOMAIN conduct, kind \in AttemptKinds : ReportEnds(i, kind, Ack)

MatchNext ==
    \/ MatchAnnounced
    \/ MatchStarts
    \/ MatchInvitationA
    \/ MatchInvitationB
    \/ MatchChoiceA
    \/ MatchChoiceB
    \/ MatchReport

MatchSpecInit == LMInit /\ SchIdle /\ GameIdle /\ MatchInit /\ LedIdle
SpecMatch == MatchSpecInit /\ [][MatchNext]_vars

-----------------------------------------------------------------------------
(* The league manager from the complete roster on: the rounds of the
   tournament, with referees that may send a report again (SpecRounds,
   SpecFinal) and players whose standings update may fail (SpecBroadcast) *)

\* reports a referee sends once more in one run (send_with_retry posts a
\* report again when the league manager's answer does not arrive in time)
MaxResends == 1
\* standings updates that fail in one run
MaxSendFailures == 1

\* the reports of the given rounds, one per scheduled match, each the
\* outcome conduct_match computes when player A answers "odd", the drawn
\* number is 1, and player B answers "even" in the first match of a round
\* (won by A) and "odd" in the second (drawn)
TournamentReports(rounds) ==
    {CreateResultReport("R" \o ToString(r), RosterSchedule[r][i].match_id,
                        ResolveMatch(RosterSchedule[r][i].player_A_id,
                                     RosterSchedule[r][i].player_B_id,
                                     "odd", IF i = 1 THEN "even" ELSE "odd", 1)) :
        r \in rounds, i \in 1..2}

\* the league manager when the sixth registration (two referees, then four
\* players) has been answered: start_tournament is created and has not run
RosterComplete(reports, resends, failures) ==
    /\ referees = [id \in {"REF01", "REF02"} |->
                      Participant(id, CHOOSE q \in RefereeRequests : TRUE,
                                  IF id = "REF01" THEN "token-1" ELSE "token-2")]
    /\ players = [id \in {"P01", "P02", "P03", "P04"} |->
                      Participant(id, CHOOSE q \in PlayerRequests : TRUE,
                                  CASE id = "P01" -> "token-3" [] id = "P02" -> "token-4"
                                    [] id = "P03" -> "token-5" [] id = "P04" -> "token-6")]
    /\ referee_count = 2
    /\ player_count = 4
    /\ tokens_issued = 6
    /\ standings = [id \in {"P01", "P02", "P03", "P04"} |->
                       NewStandingsData((CHOOSE q \in PlayerRequests : TRUE).display_name)]
    /\ scheduler = NoObject
    /\ current_round = 0
    /\ match_results = EmptyDict
    /\ tournament_started = FALSE
    /\ tasks = SetToBag({StartTournamentTask})
    /\ outbox = EmptyBag
    /\ lm_reply = Reply("register_player", 200, "P04", "ACCEPTED")
    /\ regs_left = 0
    /\ reports_left = reports
    /\ resends_left = resends
    /\ failures_left = failures
    /\ send_failed = {}

\* end_tournament has run: its banner is on the console
TournamentComplete ==
    \E m \in BagToSet(outbox) : m.type = "TOURNAMENT_COMPLETE"

\* a referee reports a match the round's announcement named, once
MatchReported ==
    \E result \in reports_left :
        /\ Announced(result)
        /\ reports_left' = reports_left \ {result}
        /\ UNCHANGED resends_left
        /\ HandleMatchResult(result)

\* a referee sends a report once more
ResendReport(result) ==
    /\ resends_left > 0
    /\ resends_left' = resends_left - 1
    /\ UNCHANGED reports_left
    /\ HandleMatchResult(result)

\* rounds 1 and 2 are reported; any report sent may arrive a second time
RoundsInit ==
    /\ RosterComplete(TournamentReports(1..2), MaxResends, 0)
    /\ SchIdle /\ GameIdle /\ RefIdle /\ LedIdle
ReportResent ==
    \E result \in TournamentReports(1..2) \ reports_left : ResendReport(result)
RoundsNext ==
    \/ MatchReported
    \/ ReportResent
    \/ RunStartTournament
    \/ AnnounceNext
    \/ RunFinishRound
    \/ BroadcastNext
    \/ WakeFinishRound
SpecRounds == RoundsInit /\ [][RoundsNext]_vars

\* the three rounds are reported; a report arrives once more after the
\* tournament has ended
FinalInit ==
    /\ RosterComplete(TournamentReports(1..3), MaxResends, 0)
    /\ SchIdle /\ GameIdle /\ RefIdle /\ LedIdle
LateReport ==
    \E result \in TournamentReports(1..3) \ reports_left :
        TournamentComplete /\ ResendReport(result)
FinalNext ==
    \/ MatchReported
    \/ LateReport
    \/ RunStartTournament
    \/ AnnounceNext
    \/ RunFinishRound
    \/ BroadcastNext
    \/ WakeFinishRound
SpecFinal == FinalInit /\ [][FinalNext]_vars

\* the three rounds are reported, each report once; sends of standings
\* updates fail
BroadcastInit ==
    /\ RosterComplete(TournamentReports(1..3), 0, MaxSendFailures)
    /\ SchIdle /\ GameIdle /\ RefIdle /\ LedIdle
BroadcastSpecNext ==
    \/ MatchReported
    \/ RunStartTournament
    \/ AnnounceNext
    \/ RunFinishRound
    \/ BroadcastNext
    \/ WakeFinishRound
SpecBroadcast == BroadcastInit /\ [][BroadcastSpecNext]_vars

-----------------------------------------------------------------------------
(* Properties of the registration gate and the tournament start (Spec) *)

\* a step that handles a registration request of the kind given
RegistrationStep(op) == regs_left' = regs_left - 1 /\ lm_reply'.op = op
\* the request handled by the step was refused and registered nobody
Refused ==
    /\ lm_reply'.status # 200
    /\ UNCHANGED <<referees, players, referee_count, player_count>>

\* C1: after any sequence of registration requests the manager holds at most
\* 2 referees and 4 players, each counter equals the size of its participant
\* map, and every registration attempted once all 6 are registered is rejected
C1_RosterBounded ==
    /\ [](/\ referee_count <= 2
          /\ player_count <= 4
          /\ referee_count = Cardinality(DOMAIN referees)
          /\ player_count = Cardinality(DOMAIN players))
    /\ [][(/\ RegistrationStep("register_referee") \/ RegistrationStep("register_player")
           /\ referee_count = 2
           /\ player_count = 4) => Refused]_vars
\* a registration arrived with all 6 registered and was rejected
C1_Witness ==
    /\ referee_count = 2
    /\ player_count = 4
    /\ lm_reply.op \in {"register_referee", "register_player"}
    /\ lm_reply.detail = "Registration limit reached"
    /\ regs_left = 0

\* C2: a referee registration attempted with 2 referees registered, and a
\* player registration attempted with 4 players registered, is rejected and
\* changes nothing: counters, participant maps, the standings ledger and the
\* tournament state are after the attempt what they were before it
C2_RejectionChangesNothing ==
    [][(\/ RegistrationStep("register_referee") /\ referee_count = 2
        \/ RegistrationStep("register_player") /\ player_count = 4)
       => /\ lm_reply'.status # 200
          /\ lm_reply'.participant_id = None
          /\ UNCHANGED <<referees, players, referee_count, player_count,
                         tokens_issued, standings, scheduler, current_round,
                         match_results, tournament_started, tasks, outbox>>]_vars
\* a fifth player was turned away while the referees were not yet complete
C2_Witness ==
    /\ lm_reply.op = "register_player"
    /\ lm_reply.detail = "Registration limit reached"
    /\ player_count = 4
    /\ referee_count < 2
    /\ ~tournament_started

\* the ids the claim names, in order of acceptance
ExpectedRefereeIds == <<"REF01", "REF02">>
ExpectedPlayerIds == <<"P01", "P02", "P03", "P04">>

\* C3: ids are assigned sequentially in registration order and never
\* duplicated: the k-th accepted referee gets REF0k, the k-th accepted player
\* P0k, and no two participants hold the same id under any interleaving of
\* the registration requests
C3_SequentialIds ==
    /\ Cardinality(DOMAIN referees) = referee_count
    /\ Cardinality(DOMAIN players) = player_count
    /\ referee_count <= 2
          => DOMAIN referees = {ExpectedRefereeIds[k] : k \in 1..referee_count}
    /\ player_count <= 4
          => DOMAIN players = {ExpectedPlayerIds[k] : k \in 1..player_count}
    /\ \A id \in DOMAIN referees : referees[id].participant_id = id
    /\ \A id \in DOMAIN players : players[id].participant_id = id
    /\ (lm_reply.op = "register_referee" /\ lm_reply.status = 200)
          => /\ referee_count \in 1..2
             /\ lm_reply.participant_id = ExpectedRefereeIds[referee_count]
    /\ (lm_reply.op = "register_player" /\ lm_reply.status = 200)
          => /\ player_count \in 1..4
             /\ lm_reply.participant_id = ExpectedPlayerIds[player_count]
\* the last of the six accepted registrations was a player's, after a refused one
C3_Witness ==
    /\ referee_count = 2
    /\ player_count = 4
    /\ lm_reply.op = "register_player"
    /\ lm_reply.status = 200
    /\ lm_reply.participant_id = "P04"
    /\ regs_left = 0

\* the round 1 announcements sent to a referee so far
Round1Announcements(ref) ==
    {m \in BagToSet(outbox) :
        m.type = "ROUND_ANNOUNCEMENT" /\ m.round_id = "R1" /\ m.to = ref}

\* C4: the tournament is started at most once and never before the roster is
\* complete: the schedule is generated and round 1 started only from a state
\* with exactly 2 referees and 4 players registered and no tournament started
\* yet, neither is ever undone or redone, and no referee is announced round 1
\* twice
C4_StartedOnce ==
    /\ [][(\/ scheduler' # scheduler
           \/ tournament_started' # tournament_started
           \/ (current_round' # current_round /\ current_round' <= 1))
          => /\ referee_count = 2 /\ Cardinality(DOMAIN referees) = 2
             /\ player_count = 4 /\ Cardinality(DOMAIN players) = 4
             /\ scheduler = NoObject /\ scheduler' # NoObject
             /\ ~tournament_started /\ tournament_started'
             /\ current_round = 0 /\ current_round' = 1]_vars
    /\ [](\A ref \in DOMAIN referees :
            /\ Cardinality(Round1Announcements(ref)) <= 1
            /\ \A m \in Round1Announcements(ref) : CopiesIn(m, outbox) = 1)
\* round 1 is under way, both referees were announced it, and a registration
\* arriving after the start was turned away
C4_Witness ==
    /\ tournament_started
    /\ scheduler # NoObject
    /\ current_round = 1
    /\ \A ref \in DOMAIN referees : Cardinality(Round1Announcements(ref)) = 1
    /\ lm_reply.detail = "Registration limit reached"
    /\ regs_left = 0

\* start_tournament never takes its validation-failure branch: the schedule
\* it generates from the registered roster always validates, and a started
\* tournament is in round 1 or later
ScheduleAlwaysValidates ==
    /\ scheduler # NoObject => ValidateSchedule(scheduler)
    /\ tournament_started <=> scheduler # NoObject
    /\ tournament_started => current_round >= 1

-----------------------------------------------------------------------------
(* Properties of the scheduler (SpecSched, SpecValidate) *)

\* the (round, match) positions of a schedule
Positions(schedule) ==
    {<<r, m>> : r \in 1..Len(schedule), m \in 1..2} \cap
    UNION {{<<r, m>> : m \in 1..Len(schedule[r])} : r \in 1..Len(schedule)}
\* the set of the two players of the match at a position
Pair(schedule, pos) ==
    {schedule[pos[1]][pos[2]].player_A_id, schedule[pos[1]][pos[2]].player_B_id}

\* C5: for every 4 distinct player ids and 2 referee ids, generate_schedule
\* returns 3 rounds of 2 matches each, every unordered pair of distinct
\* players appears in exactly one match, and every player in exactly 3
C5_RoundRobin ==
    sch # NoObject =>
        LET S == sch.schedule
            ids == {sch_players[i] : i \in 1..Len(sch_players)}
        IN  /\ Len(S) = 3
            /\ \A r \in 1..Len(S) : Len(S[r]) = 2
            /\ \A a \in ids : \A b \in ids \ {a} :
                  Cardinality({pos \in Positions(S) : Pair(S, pos) = {a, b}}) = 1
            /\ \A a \in ids :
                  Cardinality({pos \in Positions(S) : a \in Pair(S, pos)}) = 3
\* a schedule was generated from ids handed over out of order
C5_Witness ==
    /\ sch # NoObject
    /\ sch_players = <<"P2", "P10", "P04", "P01">>
    /\ sch_referees = <<"REF1", "REF01">>
    /\ sch.schedule[3][2].player_A_id = "P04"
    /\ sch.schedule[3][2].player_B_id = "P10"

\* C6: for any two orderings of the same 4 player ids and the same 2 referee
\* ids, generate_schedule returns identical rounds: same match ids, same
\* player A and B and same referee in every match
C6_OrderIndependent ==
    sch_other # NoObject => sch_other.scheduler.schedule = sch.schedule
\* both lists were handed over a second time in another order
C6_Witness ==
    /\ sch_other # NoObject
    /\ sch_other.player_ids_given # sch_players
    /\ sch_other.referee_ids_given # sch_referees
    /\ sch_other.scheduler.schedule[1][1].referee_id = "REF01"

C34_RoundsArePerfectMatchings ==
    sch # NoObject =>
        LET S == sch.schedule
            ids == {sch_players[i] : i \in 1..Len(sch_players)}
        IN  /\ Len(S) = 3
            /\ \A r \in 1..Len(S) :
                  /\ Len(S[r]) = 2
                  /\ \A a \in ids :
                        Cardinality({m \in 1..Len(S[r]) : a \in Pair(S, <<r, m>>)}) = 1
\* a schedule generated from ids handed over out of order: in round 2 P01
\* meets P10 and P04 meets P2
C34_Witness ==
    /\ sch # NoObject
    /\ sch_players = <<"P2", "P10", "P04", "P01">>
    /\ Pair(sch.schedule, <<2, 1>>) = {"P01", "P10"}
    /\ Pair(sch.schedule, <<2, 2>>) = {"P04", "P2"}

\* C33: validate_schedule accepts only genuine round-robin schedules: a
\* schedule over the 4 players it returns true for has exactly 6 matches, each
\* between two distinct players, and every unordered pair of distinct players
\* in exactly one of them
C33_ValidateAcceptsRoundRobin ==
    sch_valid = "True" =>
        LET S == sch.schedule
            ids == {Roster[i] : i \in 1..Len(Roster)}
        IN  /\ Cardinality(Positions(S)) = 6
            /\ \A pos \in Positions(S) : Cardinality(Pair(S, pos)) = 2
            /\ \A a \in ids : \A b \in ids \ {a} :
                  Cardinality({pos \in Positions(S) : Pair(S, pos) = {a, b}}) = 1

-----------------------------------------------------------------------------
(* Properties of the referee's outcome computation (SpecGame) *)

\* the spellings of the two choices, in any letter case, that occur in the model
OddSpellings == {"odd", "ODD", "Odd", "oDd"}
EvenSpellings == {"even", "EVEN", "Even", "eVEN"}
OddNumbers == {1, 3, 5, 7, 9}

\* the computed score reads A: a, B: b for the two players of the match
ScoreIs(a, b) ==
    g_result.score = << <<g_match.player_A_id, a>>, <<g_match.player_B_id, b>> >>

\* C9: when both players responded with odd or even in any letter case, for
\* every drawn number in 1..10: equal choices give a draw, winner none and
\* score 1/1, whatever the number; otherwise the player whose choice is the
\* parity of the drawn number wins with 3 and the other player scores 0
C9_OutcomeRule ==
    (/\ g_pc \in {"calculated", "resolved"}
     /\ g_choice_A \in OddSpellings \cup EvenSpellings
     /\ g_choice_B \in OddSpellings \cup EvenSpellings)
    => LET oddA == g_choice_A \in OddSpellings
           oddB == g_choice_B \in OddSpellings
           oddDrawn == g_drawn \in OddNumbers
       IN  /\ g_drawn \in 1..10
           /\ IF oddA = oddB
              THEN g_result.winner = None /\ ScoreIs(1, 1)
              ELSE IF oddA = oddDrawn
              THEN g_result.winner = g_match.player_A_id /\ ScoreIs(3, 0)
              ELSE g_result.winner = g_match.player_B_id /\ ScoreIs(0, 3)
\* A chose ODD, B chose even, 4 was drawn: B won 3 to 0
C9_Witness ==
    /\ g_pc = "calculated"
    /\ g_choice_A = "ODD"
    /\ g_choice_B = "even"
    /\ g_drawn = 4
    /\ g_result.winner = g_match.player_B_id
    /\ ScoreIs(0, 3)

\* C10: when one or both players did not respond to the choice request (the
\* request ended with no choice to hand to conduct_match, as every request
\* does that got no reply): a non-responder scores 0; if exactly one player
\* responded, that player wins with 3; if neither did, the result is a double
\* forfeit, winner none and 0/0
C10_ForfeitRule ==
    g_pc = "resolved" =>
        LET absentA == g_choice_A = None
            absentB == g_choice_B = None
        IN  /\ g_reply_A = NoObject => absentA
            /\ g_reply_B = NoObject => absentB
            /\ (absentA /\ absentB)
                  => /\ g_result.winner = None
                     /\ ScoreIs(0, 0)
                     /\ g_result.details.outcome = "DOUBLE_FORFEIT"
            /\ (absentA /\ ~absentB)
                  => g_result.winner = g_match.player_B_id /\ ScoreIs(0, 3)
            /\ (~absentA /\ absentB)
                  => g_result.winner = g_match.player_A_id /\ ScoreIs(3, 0)
\* A answered odd, B's request got no reply: A won 3 to 0
C10_Witness ==
    /\ g_pc = "resolved"
    /\ g_reply_A = [choice |-> "odd"]
    /\ g_reply_B = NoObject
    /\ g_result.winner = g_match.player_A_id
    /\ ScoreIs(3, 0)

\* the score map of the computed outcome has exactly two keys, the two
\* players of the match
ScoreOfTheTwoPlayers ==
    /\ Len(g_result.score) = 2
    /\ g_match.player_A_id # g_match.player_B_id
    /\ {g_result.score[i][1] : i \in 1..2}
          = {g_match.player_A_id, g_match.player_B_id}
\* the sum of the two values of the computed score map
ScoreSum == g_result.score[1][2] + g_result.score[2][2]

\* C11 as the specification words it: every outcome computed by
\* calculate_match_result or handle_player_timeout has a score map with
\* exactly two keys, the two players of the match, whose values sum to 6
\* (a 3/3 split), 2 (a 1/1 draw) or 0 (a double forfeit)
C11_ScoreSumSixTwoZero ==
    g_pc \in {"calculated", "resolved"}
        => ScoreOfTheTwoPlayers /\ ScoreSum \in {6, 2, 0}

\* C11, amended: every outcome computed by calculate_match_result or
\* handle_player_timeout has a score map with exactly two keys, the two
\* players of the match, whose values sum to 3 (3 to the winner and 0 to the
\* other player, by play or by a single forfeit), 2 (a 1/1 draw) or 0 (a
\* double forfeit)
C11_ScoreSumThreeTwoZero ==
    g_pc \in {"calculated", "resolved"}
        => /\ ScoreOfTheTwoPlayers
           /\ ScoreSum \in {3, 2, 0}
           /\ ScoreSum = 3 <=> g_result.winner # None
\* both players chose odd and 7 was drawn: a draw, 1 to each, sum 2
C11_Witness ==
    /\ g_pc = "calculated"
    /\ g_choice_A = "odd"
    /\ g_choice_B = "ODD"
    /\ g_drawn = 7
    /\ ScoreIs(1, 1)
    /\ ScoreSum = 2

\* C32: choice collection yields for each player "odd", "even" or no
\* response; a reply with any other choice value is not used as a choice in
\* the outcome computation, and the choices recorded in the details of an
\* outcome are "odd" or "even"
C32_ChoicesNormalized ==
    g_pc = "resolved" =>
        /\ g_choice_A \in {"odd", "even", None}
        /\ g_choice_B \in {"odd", "even", None}
        /\ "player_A_choice" \in DOMAIN g_result.details
              => /\ g_result.details.player_A_choice \in {"odd", "even"}
                 /\ g_result.details.player_B_choice \in {"odd", "even"}

\* the reply to a choice request delivers no choice: no reply arrived, or the
\* reply has no choice field or an empty one
NoChoiceDelivered(reply) ==
    \/ reply = NoObject
    \/ "choice" \notin DOMAIN reply
    \/ reply.choice = ""

\* the reply to a choice request delivers "odd" or "even", in any case
ValidChoiceDelivered(reply) ==
    /\ ~NoChoiceDelivered(reply)
    /\ Lower(reply.choice) \in {"odd", "even"}

\* C37: a player who delivered no choice is not the reported winner and
\* scores 0, and the opponent wins if the opponent delivered a valid choice
C37_WinnerDeliveredChoice ==
    g_pc = "resolved" =>
        /\ NoChoiceDelivered(g_reply_A)
              => /\ g_result.winner # g_match.player_A_id
                 /\ g_result.score[1] = <<g_match.player_A_id, 0>>
                 /\ ValidChoiceDelivered(g_reply_B)
                       => g_result.winner = g_match.player_B_id
        /\ NoChoiceDelivered(g_reply_B)
              => /\ g_result.winner # g_match.player_B_id
                 /\ g_result.score[2] = <<g_match.player_B_id, 0>>
                 /\ ValidChoiceDelivered(g_reply_A)
                       => g_result.winner = g_match.player_A_id

-----------------------------------------------------------------------------
(* Properties of the referee's server (SpecReferee, SpecMatch) *)

\* conduct_match number i has begun to run and has not ended
InProgress(i) ==
    conduct[i].pc \in {"invite_A", "invite_B", "choice_A", "choice_B", "report"}
\* the step is handle_round_announcement handling one ROUND_ANNOUNCEMENT
AnnouncementHandled == announcements_left' # announcements_left
\* the conduct_match coroutines of a message's listed matches
ListedMatches(params) ==
    [k \in 1..Len(params.body) |->
        ConductMatch(params.to, params.round_id, params.body[k])]

\* C12: a referee accepts a round assignment only in the Idle state: a
\* ROUND_ANNOUNCEMENT received while a match is in progress is answered with
\* status "busy", starts no match and leaves the context of the match in
\* progress unchanged; one received in Idle is acknowledged and starts the
\* listed matches
C12_AcceptsOnlyWhenIdle ==
    [][AnnouncementHandled =>
          /\ (\E i \in DOMAIN conduct : InProgress(i))
                => /\ ref_reply'.status = "busy"
                   /\ conduct' = conduct
                   /\ context' = context
          /\ context["REF01"].state = "IDLE"
                => /\ ref_reply'.status = "acknowledged"
                   /\ \E params \in announcements_left \ announcements_left' :
                          conduct' = conduct \o ListedMatches(params)]_vars

\* C13: a referee processes at most one match at a time: whatever
\* ROUND_ANNOUNCEMENTs are delivered to it, there are never two conduct_match
\* instances in progress at the same moment, and context.state is
\* CONDUCTING_MATCH whenever one of its matches is in progress
C13_OneMatchAtATime ==
    /\ Cardinality({i \in DOMAIN conduct : InProgress(i)}) <= 1
    /\ (\E i \in DOMAIN conduct : InProgress(i))
          => context["REF01"].state = "CONDUCTING_MATCH"

\* the steps of conduct_match in the order of the code
StepRank(pc) ==
    CASE pc = "created" -> 0
      [] pc = "invite_A" -> 1
      [] pc = "invite_B" -> 2
      [] pc = "choice_A" -> 3
      [] pc = "choice_B" -> 4
      [] pc = "report" -> 5
      [] pc = "done" -> 6
      [] pc = "raised" -> 7
\* what a conduct_match coroutine at its position has behind it
StepsBehind(m) ==
    /\ (m.invite_A_success # None) <=> (StepRank(m.pc) >= 2)
    /\ (m.invite_B_success # None) <=> (StepRank(m.pc) >= 3)
    /\ (m.result_report # NoObject) <=> (m.pc \in {"report", "done"})
    /\ (m.reported # None) <=> (m.pc = "done")

\* C14: within one match the steps are strictly ordered: both invitations
\* are attempted (and their attempts have ended) before any choice request
\* is sent; the choice request to A has ended before the one to B is sent and
\* both have ended before the outcome is computed; the outcome is computed
\* before the result report is sent; and the referee's state goes back to
\* IDLE only in the step in which the match's report attempt has finished
C14_StepsInOrder ==
    [][/\ \A i \in DOMAIN conduct :
             /\ conduct'[i].pc # conduct[i].pc
                   => \/ StepRank(conduct'[i].pc) = StepRank(conduct[i].pc) + 1
                      \/ /\ conduct'[i].pc = "raised"
                         /\ conduct[i].pc \in {"choice_A", "choice_B"}
             /\ conduct'[i].pc = conduct[i].pc
                   => /\ conduct'[i].attempt >= conduct[i].attempt
                      /\ conduct'[i].result_report = conduct[i].result_report
       /\ \A i \in DOMAIN conduct' : StepsBehind(conduct'[i])
       /\ (context["REF01"].state = "CONDUCTING_MATCH"
              /\ context'["REF01"].state = "IDLE")
             => \E i \in DOMAIN conduct :
                    conduct[i].pc = "report" /\ conduct'[i].pc = "done"]_vars
\* a match has gone through all its steps: both invitations failed, A chose
\* odd, B's request got no reply, A's win was reported, the referee is IDLE
C14_Witness ==
    /\ Len(conduct) = 1
    /\ conduct[1].pc = "done"
    /\ conduct[1].invite_A_success = "False"
    /\ conduct[1].invite_B_success = "False"
    /\ conduct[1].choice_A = "odd"
    /\ conduct[1].choice_B = None
    /\ conduct[1].result_report.winner = conduct[1].player_A_id
    /\ conduct[1].reported = "True"
    /\ context["REF01"].state = "IDLE"

\* conduct_match number i has run and runs no more: it returned, or an
\* exception ended it
Stopped(i) == conduct[i].pc \in {"done", "raised"}

\* C15: an invitation failure does not abort a match: whether the invitation
\* to player A, to player B or to both failed after its retries, the match
\* does not stop before the referee has sent a choice request to each of the
\* two players and has produced and reported an outcome
C15_InvitationFailureDoesNotAbort ==
    \A i \in DOMAIN conduct :
        (/\ Stopped(i)
         /\ "False" \in {conduct[i].invite_A_success, conduct[i].invite_B_success})
        => /\ StepRank(conduct[i].pc) > StepRank("choice_B")
           /\ conduct[i].pc = "done"
           /\ conduct[i].result_report # NoObject
           /\ conduct[i].reported # None

\* C16: every match a referee starts terminates, whatever the players do
\* (reply, time out, refuse the connection, answer with an HTTP error or with
\* a missing or malformed choice field) and whether or not the report to the
\* league manager succeeds: no request is posted more than MAX_RETRIES
\* times, and conduct_match stops only with one result report attempted and
\* the referee back in IDLE
C16_MatchTerminates ==
    \A i \in DOMAIN conduct :
        /\ conduct[i].attempt < MAX_RETRIES
        /\ Stopped(i)
              => /\ conduct[i].pc = "done"
                 /\ conduct[i].result_report # NoObject
                 /\ conduct[i].reported # None
                 /\ context["REF01"].state = "IDLE"

\* the awaits of conduct_match that are calls of send_with_retry
PostSteps == {"invite_A", "invite_B", "choice_A", "choice_B", "report"}

\* the send_with_retry call a coroutine was in has returned None: the caller
\* went on with a failed invitation, no choice, or an unreported result
ReturnedFailure(before, after) ==
    /\ after.pc \notin {before.pc, "raised"}
    /\ CASE before.pc = "invite_A" -> after.invite_A_success = "False"
         [] before.pc = "invite_B" -> after.invite_B_success = "False"
         [] before.pc = "choice_A" -> after.choice_A = None
         [] before.pc = "choice_B" -> after.choice_B = None
         [] before.pc = "report" -> after.reported = "False"

\* the send_with_retry call a coroutine was in has returned the body json: the
\* caller went on with what it makes of that body
ReturnedResponse(before, after, json) ==
    /\ after.pc # before.pc
    /\ CASE before.pc = "invite_A" -> after.invite_A_success = "True"
         [] before.pc = "invite_B" -> after.invite_B_success = "True"
         [] before.pc = "choice_A" ->
               IF RequestPlayerChoiceRaises(json) THEN after.pc = "raised"
               ELSE after.pc # "raised" /\ after.choice_A = RequestPlayerChoice(json)
         [] before.pc = "choice_B" ->
               IF RequestPlayerChoiceRaises(json) THEN after.pc = "raised"
               ELSE after.pc # "raised" /\ after.choice_B = RequestPlayerChoice(json)
         [] before.pc = "report" -> after.reported = "True"

-----------------------------------------------------------------------------
(* Properties of the rounds of the tournament (SpecRounds, SpecFinal,
   SpecBroadcast) *)

\* how many messages of a type the league manager has sent to a receiver
\* for a round
SentCount(type, to, round_id) ==
    LET ms == {m \in BagToSet(outbox) :
                  m.type = type /\ m.to = to /\ m.round_id = round_id}
    IN  BagCardinality([m \in ms |-> outbox[m]])
RoundId(r) == "R" \o ToString(r)
\* how often finish_round was launched for round r: the runs that began for
\* it (each sends the round's first standings update, to P01) and the tasks
\* created for it that have not run yet
FinishRoundLaunches(r) ==
    SentCount("LEAGUE_STANDINGS_UPDATE", "P01", RoundId(r))
    + (IF current_round = r THEN CopiesIn(FinishRoundTask, tasks) ELSE 0)

\* C17: for each round r the completion is detected exactly once:
\* finish_round is launched one time, when the last of round r's match ids
\* gets a recorded outcome, in whatever order the reports arrive and even
\* when a report for an already recorded match id is delivered again
C17_CompletionDetectedOnce ==
    \A r \in 1..3 :
        /\ FinishRoundLaunches(r) <= 1
        /\ (/\ scheduler # NoObject
            /\ current_round = r
            /\ RoundComplete(scheduler, r, match_results))
              => FinishRoundLaunches(r) = 1

\* C18: rounds are started in the order 1, 2, 3, each exactly once: the
\* ROUND_ANNOUNCEMENTs of round r+1 are sent only after every match of round
\* r has a recorded outcome and the standings for round r have been
\* broadcast, and no round is skipped or announced twice
C18_RoundsInOrder ==
    \A m \in BagToSet(outbox) :
        m.type = "ROUND_ANNOUNCEMENT" =>
            /\ CopiesIn(m, outbox) = 1
            /\ \A r \in 1..2 :
                  m.round_id = RoundId(r + 1) =>
                      /\ \E n \in BagToSet(outbox) :
                             n.type = "ROUND_ANNOUNCEMENT" /\ n.round_id = RoundId(r)
                      /\ \A result \in reports_left : result.round_id # RoundId(r)
                      /\ \A p \in DOMAIN players :
                             SentCount("LEAGUE_STANDINGS_UPDATE", p, RoundId(r)) >= 1

\* C19: TournamentComplete is terminal and reached once: once end_tournament
\* has run after round 3 settled, no message, a late or repeated match result
\* report included, causes another round start, another standings broadcast
\* or another run of end_tournament: nothing more is sent to a referee or a
\* player or printed as the final banner, and the round stays the last one
C19_CompleteIsTerminal ==
    [][TournamentComplete =>
          /\ outbox' = outbox
          /\ current_round' = current_round]_vars

\* every player has been sent the standings update of the round
StandingsBroadcast(round_id) ==
    \A p \in DOMAIN players :
        SentCount("LEAGUE_STANDINGS_UPDATE", p, round_id) >= 1

\* C20: when a round settles, a LEAGUE_STANDINGS_UPDATE is attempted to each
\* of the 4 players, and a failed send to one player prevents neither the
\* sends to the remaining players nor the advancement to the next round or
\* the tournament end: in the step in which a send fails, the update to the
\* next player is sent or, after the last player, finish_round goes on to
\* its sleep before the next round or to end_tournament; a finish_round
\* that sleeps can always wake and start the next round; and every round
\* left behind has had its update sent to all players
C20_BroadcastSurvivesFailure ==
    [][/\ send_failed' # send_failed
             => \E t \in BagToSet(tasks) :
                    /\ t.pc = "broadcast"
                    /\ IF t.todo # << >>
                       THEN /\ outbox' = outbox (+) SetToBag({
                                   StandingsUpdate(Head(t.todo), t.round_id, t.snapshot)})
                            /\ tasks' = AddTask(DropTask(tasks, t),
                                                [t EXCEPT !.todo = Tail(@)])
                       ELSE IF current_round >= 3
                       THEN TournamentComplete'
                       ELSE /\ tasks' = AddTask(DropTask(tasks, t),
                                                [t EXCEPT !.pc = "sleep"])
                            /\ match_results' = EmptyDict
       /\ (\E t \in BagToSet(tasks) : t.pc = "sleep") => ENABLED WakeFinishRound
       /\ \A t \in BagToSet(tasks') :
             t.pc = "sleep" => (StandingsBroadcast(t.round_id))'
       /\ \A r \in 1..2 : current_round' > r => (StandingsBroadcast(RoundId(r)))'
       /\ TournamentComplete' => (StandingsBroadcast(RoundId(3)))']_vars
\* the update of round 1 to P02 failed; P03 and P04 were sent theirs and
\* round 2 has started
C20_Witness ==
    /\ send_failed = {<<"P02", "R1">>}
    /\ StandingsBroadcast("R1")
    /\ current_round = 2
    /\ \E m \in BagToSet(outbox) : m.type = "ROUND_ANNOUNCEMENT" /\ m.round_id = "R2"

-----------------------------------------------------------------------------
(* The whole league from the complete roster on: the league manager, the two
   referees and players that answer every request. No message is lost, no
   POST times out. *)

\* the ROUND_ANNOUNCEMENTs of the roster's schedule, to both referees
LeagueAnnouncements ==
    UNION {{Announcement(r, RefereeMatches(RosterSchedule[r])[g]) :
               g \in 1..Len(RefereeMatches(RosterSchedule[r]))} :
           r \in 1..Len(RosterSchedule)}

\* protocol.create_choice_response with the choice make_move returns: in the
\* runs of the league player A of a match answers either parity, player B
\* "odd", and the referee draws a number of LeagueDraws
PlayerChoices == {[choice |-> "odd"], [choice |-> "even"]}
LeagueDraws == {1}

\* the result reports conduct_match can build for the matches of the schedule
LeagueReports ==
    {CreateResultReport("R" \o ToString(r), RosterSchedule[r][i].match_id,
                        ResolveMatch(RosterSchedule[r][i].player_A_id,
                                     RosterSchedule[r][i].player_B_id,
                                     a.choice, OddChoice.choice, d)) :
        r \in 1..Len(RosterSchedule), i \in 1..2,
        a \in PlayerChoices, d \in LeagueDraws}

LeagueInit ==
    /\ RosterComplete(LeagueReports, 0, 0)
    /\ SchIdle /\ GameIdle /\ LedIdle
    /\ context = [ref \in RefereeIds |-> RefereeContext("IDLE", None, None, None, None)]
    /\ conduct = << >>
    /\ ref_reply = [status |-> "none", round_id |-> None]
    /\ announcements_left = LeagueAnnouncements

\* an announcement the league manager has posted reaches its referee
LeagueAnnounced ==
    \E params \in announcements_left :
        /\ BagIn(params, outbox)
        /\ HandleRoundAnnouncement(params)

\* the referee has answered the announcement in flight: start_round goes on
LeagueAnnounceNext ==
    /\ \A m \in BagToSet(outbox) : m \notin announcements_left
    /\ AnnounceNext

LeagueMatchStarts == \E i \in DOMAIN conduct : ConductMatchStarts(i)
LeagueInvitedA == \E i \in DOMAIN conduct : InvitationAEnds(i, "reply", Ack)
LeagueInvitedB == \E i \in DOMAIN conduct : InvitationBEnds(i, "reply", Ack)
LeagueChoiceA ==
    \E i \in DOMAIN conduct, json \in PlayerChoices : ChoiceAEnds(i, "reply", json)
LeagueChoiceB ==
    \E i \in DOMAIN conduct, d \in LeagueDraws :
        ChoiceBEnds(i, "reply", OddChoice, d)

\* the report a conduct_match coroutine has posted reaches the league manager
LeagueReport ==
    \E result \in reports_left :
        /\ \E i \in DOMAIN conduct :
              conduct[i].pc = "report" /\ conduct[i].result_report = result
        /\ reports_left' = reports_left \ {result}
        /\ UNCHANGED resends_left
        /\ HandleMatchResult(result)

\* the league manager's answer to the report reaches the referee
LeagueReported ==
    \E i \in DOMAIN conduct :
        /\ conduct[i].result_report \notin reports_left
        /\ ReportEnds(i, "reply", [status |-> "acknowledged"])

\* asyncio.sleep(60) of finish_round ends: the report POSTs of the round were
\* answered before the sleep began and a referee waits at most
\* RESULT_REPORT_TIMEOUT (10 s) for the answer, so by now every conduct_match
\* of the round has returned
LeagueWake ==
    /\ \A i \in DOMAIN conduct : conduct[i].pc \in {"done", "raised"}
    /\ WakeFinishRound

LeagueNext ==
    \/ RunStartTournament
    \/ LeagueAnnounced
    \/ LeagueAnnounceNext
    \/ LeagueMatchStarts
    \/ LeagueInvitedA
    \/ LeagueInvitedB
    \/ LeagueChoiceA
    \/ LeagueChoiceB
    \/ LeagueReport
    \/ LeagueReported
    \/ RunFinishRound
    \/ BroadcastNext
    \/ LeagueWake

\* the event loops run every coroutine that is ready and every request is
\* answered: the league does not stop while one of its steps is possible
LeagueFairness == WF_vars(LeagueNext)

SpecLeague == LeagueInit /\ [][LeagueNext]_vars /\ LeagueFairness

-----------------------------------------------------------------------------
(* The league manager receiving MATCH_RESULT_REPORTs with their envelopes:
   the reports of the tournament's referees under their own tokens, and
   reports sent under a token that is not the sender's *)

\* RegistrationManager.validate_token
ValidateToken(participant_id, token) ==
    LET participant == GetParticipant(participant_id)
    IN  IF participant = NoObject THEN FALSE
        ELSE participant.auth_token = token

\* protocol.create_result_report: the envelope's sender and auth_token around
\* the result's fields
ReportMessage(sender, auth_token, result) ==
    [message_type |-> "MATCH_RESULT_REPORT", sender |-> sender,
     auth_token |-> auth_token, round_id |-> result.round_id,
     match_id |-> result.match_id, winner |-> result.winner, score |-> result.score]

\* handle_match_result, line 149: MatchResult(**data) keeps the fields of the
\* model and ignores the others
ParseMatchResult(data) ==
    MatchResult(data.round_id, data.match_id, data.winner, data.score)

\* the rounds whose reports arrive, and how many reports under a wrong token
EnvelopeRounds == {1}
MaxForged == 1

\* the reports of these rounds, each sent by the match's referee with the
\* token the referee was registered with, and two reports of round 1 matches
\* sent with another participant's token and under an unregistered id
EnvelopedReports ==
    {ReportMessage(RosterSchedule[r][i].referee_id,
                   IF RosterSchedule[r][i].referee_id = "REF01" THEN "token-1"
                   ELSE "token-2",
                   CreateResultReport("R" \o ToString(r), RosterSchedule[r][i].match_id,
                       ResolveMatch(RosterSchedule[r][i].player_A_id,
                                    RosterSchedule[r][i].player_B_id,
                                    "odd", IF i = 1 THEN "even" ELSE "odd", 1))) :
        r \in EnvelopeRounds, i \in 1..2}
    \cup
    {ReportMessage("REF01", "token-2",
                   CreateResultReport("R1", "R1M1",
                       ResolveMatch(RosterSchedule[1][1].player_A_id,
                                    RosterSchedule[1][1].player_B_id, "even", "odd", 1))),
     ReportMessage("REF09", "token-1",
                   CreateResultReport("R1", "R1M2",
                       ResolveMatch(RosterSchedule[1][2].player_A_id,
                                    RosterSchedule[1][2].player_B_id, "odd", "even", 1)))}

EnvelopeInit ==
    /\ RosterComplete(EnvelopedReports, 0, 0)
    /\ SchIdle /\ GameIdle /\ RefIdle /\ LedIdle

\* mcp_endpoint dispatching a MATCH_RESULT_REPORT to handle_match_result
EnvelopedReport ==
    \E data \in reports_left :
        /\ Announced(ParseMatchResult(data))
        /\ \/ ValidateToken(data.sender, data.auth_token)
           \/ Cardinality({d \in EnvelopedReports \ reports_left :
                              ~ValidateToken(d.sender, d.auth_token)}) < MaxForged
        /\ reports_left' = reports_left \ {data}
        /\ UNCHANGED resends_left
        /\ HandleMatchResult(ParseMatchResult(data))

EnvelopeNext ==
    \/ RunStartTournament
    \/ AnnounceNext
    \/ EnvelopedReport
    \/ RunFinishRound
    \/ BroadcastNext
    \/ WakeFinishRound

SpecEnvelope == EnvelopeInit /\ [][EnvelopeNext]_vars

-----------------------------------------------------------------------------
(* The league manager receiving result reports at any time: a report can
   arrive before the tournament has started and before the players it names
   have registered *)

\* a MATCH_RESULT_REPORT is delivered, whatever has been announced
UnannouncedReport ==
    \E result \in reports_left :
        /\ Cardinality(ReportPool \ reports_left) < MaxReports
        /\ reports_left' = reports_left \ {result}
        /\ UNCHANGED resends_left
        /\ HandleMatchResult(result)

UnannouncedNext ==
    \/ RefereeRegisters
    \/ PlayerRegisters
    \/ UnannouncedReport
    \/ RunStartTournament
    \/ AnnounceNext
    \/ RunFinishRound
    \/ BroadcastNext
    \/ WakeFinishRound

SpecUnannounced == Init /\ [][UnannouncedNext]_vars

-----------------------------------------------------------------------------
(* StandingsManager on its own: update_from_result and get_sorted_standings
   called on ledgers of the four players, with well-formed and malformed
   results *)

MaxLedgerCalls == 2

LedgerPlayers == <<"P01", "P02", "P03", "P04">>

\* rows a player can have reached: no match yet, one win, three draws
LedgerRows ==
    {NewStandingsData("Player"),
     [NewStandingsData("Player") EXCEPT !.played = 1, !.wins = 1, !.points = 3],
     [NewStandingsData("Player") EXCEPT !.played = 3, !.draws = 3, !.points = 3]}

\* the outcomes a referee reports for the match of P01 and P02: each player
\* delivered "odd" or "even", an empty choice, or nothing; the number drawn is
\* 1 or 2
RefereeOutcomes ==
    {CreateResultReport("R1", "R1M1", ResolveMatch("P01", "P02", cA, cB, d)) :
        cA \in {"odd", "even", "", None}, cB \in {"odd", "even", "", None},
        d \in {1, 2}}

\* the results handed to update_from_result: the outcomes referees report,
\* score dicts in either key order, and the malformed ones (one key, three
\* keys, a winner who is not of the two, a key without a row)
LedgerResults ==
    RefereeOutcomes \cup
    {MatchResult("R1", "R1M1", "P01", << <<"P01", 3>>, <<"P02", 0>> >>),
     MatchResult("R1", "R1M1", "P02", << <<"P01", 0>>, <<"P02", 3>> >>),
     MatchResult("R1", "R1M1", None, << <<"P01", 1>>, <<"P02", 1>> >>),
     MatchResult("R1", "R1M2", None, << <<"P03", 1>>, <<"P04", 1>> >>),
     MatchResult("R2", "R2M2", "P04", << <<"P04", 3>>, <<"P02", 0>> >>),
     MatchResult("R1", "R1M1", "P01", << <<"P01", 3>> >>),
     MatchResult("R1", "R1M1", "P01", << <<"P01", 3>>, <<"P02", 0>>, <<"P03", 0>> >>),
     MatchResult("R1", "R1M1", "P03", << <<"P01", 3>>, <<"P02", 0>> >>),
     MatchResult("R1", "R1M1", "P09", << <<"P01", 3>>, <<"P02", 0>> >>),
     MatchResult("R1", "R1M1", "P01", << <<"P01", 3>>, <<"P09", 0>> >>)}

\* initialize_player was called for the four players in the order of their
\* ids; update_from_result has brought each row to one of LedgerRows
LedgerInit ==
    /\ ledger \in [{LedgerPlayers[i] : i \in 1..Len(LedgerPlayers)} -> LedgerRows]
    /\ ledger_op = NoObject
    /\ ledger_calls = 0

\* the call made before the one being made: its name, its argument and the
\* ledger it found
LedgerCallBefore ==
    IF ledger_op = NoObject THEN NoObject
    ELSE [name |-> ledger_op.name, result |-> ledger_op.result,
          before |-> ledger_op.before]

\* standings_mgr.update_from_result(result)
LedgerUpdate ==
    \E result \in LedgerResults :
        /\ ledger_calls < MaxLedgerCalls
        /\ ledger' = UpdateFromResult(ledger, result).standings
        /\ ledger_op' = [name |-> "update_from_result", result |-> result,
                         before |-> ledger,
                         raised |-> UpdateFromResult(ledger, result).raised,
                         returned |-> None, previous |-> LedgerCallBefore]
        /\ ledger_calls' = ledger_calls + 1
        /\ UNCHANGED <<lmVars, schVars, gameVars, refVars>>

\* standings_mgr.get_sorted_standings()
LedgerSort ==
    /\ ledger_calls < MaxLedgerCalls
    /\ ledger_op' = [name |-> "get_sorted_standings", result |-> None,
                     before |-> ledger, raised |-> FALSE,
                     returned |-> GetSortedStandings(ledger),
                     previous |-> LedgerCallBefore]
    /\ ledger_calls' = ledger_calls + 1
    /\ UNCHANGED <<ledger, lmVars, schVars, gameVars, refVars>>

LedgerNext == LedgerUpdate \/ LedgerSort

LedgerSpecInit == LMInit /\ SchIdle /\ GameIdle /\ RefIdle /\ LedgerInit

SpecLedger == LedgerSpecInit /\ [][LedgerNext]_vars

\* the reports the league manager has handled so far
HandledReports == TournamentReports(1..3) \ reports_left

\* a player's row when the reports of the set have been applied one after
\* another, in whatever order: the matches, wins and draws of the player counted
RowOfReports(p, reports) ==
    LET mine == {r \in reports : \E k \in 1..Len(r.score) : r.score[k][1] = p}
        wins == Cardinality({r \in mine : r.winner = p})
        draws == Cardinality({r \in mine : r.winner = None})
    IN  [played |-> Cardinality(mine), wins |-> wins, draws |-> draws,
         losses |-> Cardinality(mine) - wins - draws, points |-> 3 * wins + draws,
         display_name |-> players[p].display_name]

\* C28: ledger updates of reports arriving concurrently are never lost: for the
\* distinct reports handled so far, in whatever interleaving, the ledger is
\* the one that applying the same reports one after another gives
C28_NoLostUpdate ==
    standings = [p \in DOMAIN players |-> RowOfReports(p, HandledReports)]

\* both reports of round 1 have arrived before finish_round has run: every
\* player has played one match
C28_Witness ==
    /\ {r.match_id : r \in HandledReports} = {"R1M1", "R1M2"}
    /\ \E t \in BagToSet(tasks) : t.kind = "finish_round" /\ t.pc = "created"
    /\ \A p \in DOMAIN standings : standings[p].played = 1

-----------------------------------------------------------------------------
(* Properties of the whole league (SpecLeague) *)

\* the sixth participant has just registered: start_tournament is created
RosterJustComplete ==
    /\ ~tournament_started
    /\ referee_count = 2 /\ player_count = 4
    /\ BagIn(StartTournamentTask, tasks)

\* rounds 1, 2 and 3 were started, an outcome was received for each of the 6
\* matches, and end_tournament has run
LeagueDone ==
    /\ TournamentComplete
    /\ \A r \in 1..3, ref \in RefereeIds :
          SentCount("ROUND_ANNOUNCEMENT", ref, "R" \o ToString(r)) >= 1
    /\ \A r \in 1..3, i \in 1..2 :
          \E k \in DOMAIN conduct :
              /\ conduct[k].match_id = RosterSchedule[r][i].match_id
              /\ conduct[k].pc = "done"
              /\ conduct[k].reported = "True"
              /\ conduct[k].result_report \notin reports_left
    /\ \A p \in DOMAIN standings : standings[p].played = 3

\* C27: with every agent reachable and answering every request, and every
\* enabled step eventually taken, once the sixth participant has registered
\* the league starts rounds 1, 2 and 3, receives an outcome for each of the 6
\* matches and reaches the end of the tournament, driven by its own messages
\* only
C27_TournamentCompletes == RosterJustComplete ~> LeagueDone

\* the tournament is over: six matches were conducted and reported, P01 has
\* played three matches, nothing is left to run
C27_Witness ==
    /\ LeagueDone
    /\ Len(conduct) = 6
    /\ tasks = EmptyBag
    /\ announcements_left = {}

-----------------------------------------------------------------------------
(* Properties of the standings ledger (SpecLedger) *)

\* the last call was update_from_result
Updated == ledger_op # NoObject /\ ledger_op.name = "update_from_result"

\* a well-formed outcome: a score map with exactly two registered players
\* and a winner who is none or one of the two
WellFormed(st, result) ==
    /\ Len(result.score) = 2
    /\ result.score[1][1] \in DOMAIN st
    /\ result.score[2][1] \in DOMAIN st
    /\ result.score[1][1] # result.score[2][1]
    /\ result.winner \in {None, result.score[1][1], result.score[2][1]}

\* the row after a match: what a win, a draw and a loss add to the row
RowAfter(row, wins, draws, losses, points) ==
    [row EXCEPT !.played = @ + 1, !.wins = @ + wins, !.draws = @ + draws,
                !.losses = @ + losses, !.points = @ + points]

\* C21: for a well-formed outcome update_from_result adds 1 to played of both
\* players; with no winner both get draws + 1 and points + 1; otherwise the
\* winner gets wins + 1 and points + 3 and the other losses + 1; the rows of
\* all other players stay as they were
C21_WellFormedUpdate ==
    (Updated /\ WellFormed(ledger_op.before, ledger_op.result)) =>
        LET before == ledger_op.before
            winner == ledger_op.result.winner
            two == {ledger_op.result.score[1][1], ledger_op.result.score[2][1]}
        IN  /\ ~ledger_op.raised
            /\ DOMAIN ledger = DOMAIN before
            /\ \A p \in DOMAIN before \ two : ledger[p] = before[p]
            /\ \A p \in two :
                  ledger[p] = IF winner = None THEN RowAfter(before[p], 0, 1, 0, 1)
                              ELSE IF winner = p THEN RowAfter(before[p], 1, 0, 0, 3)
                              ELSE RowAfter(before[p], 0, 0, 1, 0)

\* a match with a winner was entered: the winner's and the loser's rows changed
C21_Witness ==
    /\ Updated
    /\ WellFormed(ledger_op.before, ledger_op.result)
    /\ ledger_op.result.winner = "P04"
    /\ ledger["P04"].wins = ledger_op.before["P04"].wins + 1
    /\ ledger["P02"].losses = ledger_op.before["P02"].losses + 1

\* a malformed outcome: the score map does not have exactly 2 keys, or a winner
\* id is present that is neither of the two keys
Malformed(result) ==
    \/ Len(result.score) # 2
    \/ /\ result.winner \notin {None, ""}
       /\ result.winner \notin {result.score[1][1], result.score[2][1]}

\* C22: update_from_result skips a malformed outcome without crashing: every
\* field of every ledger row is the same after the call as before it
C22_MalformedSkipped ==
    (Updated /\ Malformed(ledger_op.result)) =>
        ~ledger_op.raised /\ ledger = ledger_op.before

\* the last call was get_sorted_standings
Sorted == ledger_op # NoObject /\ ledger_op.name = "get_sorted_standings"

\* the place of a player in the ledger's insertion order
InsertionIndex(player_id) ==
    CHOOSE i \in 1..Len(LedgerPlayers) : LedgerPlayers[i] = player_id

\* C23: get_sorted_standings returns every ledger entry exactly once, ordered by
\* points descending then wins descending, entries equal on both in the
\* ledger's insertion order, with the ranks 1..N by position; the ledger is
\* not changed
C23_SortedStandings ==
    Sorted =>
        LET list == ledger_op.returned
            before == ledger_op.before
        IN  /\ ledger = before
            /\ Len(list) = Cardinality(DOMAIN before)
            /\ {list[i].player_id : i \in 1..Len(list)} = DOMAIN before
            /\ \A i \in 1..Len(list) :
                  /\ list[i].rank = i
                  /\ [played |-> list[i].played, wins |-> list[i].wins,
                      draws |-> list[i].draws, losses |-> list[i].losses,
                      points |-> list[i].points,
                      display_name |-> list[i].display_name] = before[list[i].player_id]
            /\ \A i, j \in 1..Len(list) :
                  i < j =>
                     \/ list[i].points > list[j].points
                     \/ list[i].points = list[j].points /\ list[i].wins > list[j].wins
                     \/ /\ list[i].points = list[j].points
                        /\ list[i].wins = list[j].wins
                        /\ InsertionIndex(list[i].player_id) < InsertionIndex(list[j].player_id)

\* a ledger sorted in which P01 has 3 points from draws and P02 and P03 3
\* points from a win each: P02 and P03 go first, in that order, then P01
C23_Witness ==
    /\ Sorted
    /\ <<ledger_op.returned[1].player_id, ledger_op.returned[2].player_id,
         ledger_op.returned[3].player_id, ledger_op.returned[4].player_id>>
          = <<"P02", "P03", "P01", "P04">>
    /\ ledger_op.returned[3].points = 3
    /\ ledger_op.returned[3].wins = 0
    /\ ledger_op.returned[2].wins = 1
    /\ ledger_op.returned[4].points = 0

\* the last two calls were update_from_result with the same outcome, a score
\* map of two registered players
AppliedTwice ==
    /\ Updated
    /\ ledger_op.previous # NoObject
    /\ ledger_op.previous.name = "update_from_result"
    /\ ledger_op.previous.result = ledger_op.result
    /\ Len(ledger_op.result.score) = 2
    /\ \A i \in 1..2 : ledger_op.result.score[i][1] \in DOMAIN ledger_op.previous.before

\* C31: the ledger is not idempotent: after the same outcome is applied twice
\* both players' played is 2 higher than before the first call, and what the
\* outcome adds to wins, draws, losses and points is added twice
C31_DoubleCounted ==
    AppliedTwice =>
        LET before == ledger_op.previous.before
            winner == ledger_op.result.winner
            two == {ledger_op.result.score[1][1], ledger_op.result.score[2][1]}
            Twice(row, wins, draws, losses, points) ==
                RowAfter(RowAfter(row, wins, draws, losses, points),
                         wins, draws, losses, points)
        IN  /\ \A p \in DOMAIN before \ two : ledger[p] = before[p]
            /\ \A p \in two :
                  /\ ledger[p].played = before[p].played + 2
                  /\ ledger[p] = IF winner \in {None, ""} THEN Twice(before[p], 0, 1, 0, 1)
                                 ELSE IF winner = p THEN Twice(before[p], 1, 0, 0, 3)
                                 ELSE IF winner \in two THEN Twice(before[p], 0, 0, 1, 0)
                                 ELSE Twice(before[p], 0, 0, 0, 0)

\* P01's win over P02 was entered twice on rows without a match: P01 has two
\* wins and 6 points from one match, P02 two losses
C31_Witness ==
    /\ AppliedTwice
    /\ ledger_op.result.winner = "P01"
    /\ ledger_op.previous.before["P01"] = NewStandingsData("Player")
    /\ ledger["P01"].played = 2
    /\ ledger["P01"].wins = 2
    /\ ledger["P01"].points = 6
    /\ ledger["P02"].losses = ledger_op.previous.before["P02"].losses + 2

\* C36: the ledger agrees with the referees' scores: an outcome a referee
\* reports adds to each player's points the player's entry in its score map,
\* so the points are the sum of the entries of the outcomes reported
C36_PointsFollowScores ==
    (Updated /\ ledger_op.result \in RefereeOutcomes) =>
        \A i \in 1..Len(ledger_op.result.score) :
            ledger[ledger_op.result.score[i][1]].points =
                ledger_op.before[ledger_op.result.score[i][1]].points
                    + ledger_op.result.score[i][2]

\* C35: after any sequence of update_from_result calls every row has
\* played = wins + draws + losses and points = 3 * wins + draws
C35_RowsBalanced ==
    \A p \in DOMAIN ledger :
        /\ ledger[p].played = ledger[p].wins + ledger[p].draws + ledger[p].losses
        /\ ledger[p].points = 3 * ledger[p].wins + ledger[p].draws

-----------------------------------------------------------------------------
(* Properties of the league manager's entry points (SpecEnvelope, Spec) *)

\* C24: a MATCH_RESULT_REPORT whose auth_token is not the token stored for its
\* sender is rejected and leaves the standings ledger, the recorded outcomes
\* and the current round unchanged
C24_TokenChecked ==
    [][\A data \in reports_left :
          (data \notin reports_left' /\ ~ValidateToken(data.sender, data.auth_token)) =>
              /\ lm_reply'.status \notin 200..299
              /\ standings' = standings
              /\ match_results' = match_results
              /\ current_round' = current_round]_vars

\* C26: a request refused because of its content (a missing or invalid field,
\* a registration over the roster's limit) is answered with a 4xx status,
\* never a 5xx one
C26_RefusalIsClientError ==
    lm_reply.detail \in {"validation error", "Registration limit reached"} =>
        lm_reply.status \in 400..499

\* C38: a MATCH_RESULT_REPORT the league manager answers with an error (one
\* arriving before the tournament has started, when there is no schedule, or
\* one naming a player who is not registered) leaves the standings ledger and
\* the recorded outcomes unchanged
C38_ErrorLeavesLedger ==
    [][(reports_left' # reports_left /\ lm_reply'.status \notin 200..299)
          => /\ standings' = standings
             /\ match_results' = match_results]_vars

\* C39: each scheduled match contributes to the standings exactly once, also
\* when a result report is delivered more than once: every standings update
\* sent for round r shows played = r for every player, and at the end of the
\* tournament every player has played = 3
C39_MatchCountedOnce ==
    /\ \A m \in BagToSet(outbox) : \A r \in 1..3 :
          (m.type = "LEAGUE_STANDINGS_UPDATE" /\ m.round_id = RoundId(r))
              => \A i \in 1..Len(m.body) : m.body[i].played = r
    /\ TournamentComplete => \A p \in DOMAIN standings : standings[p].played = 3

\* C40: current_round stays in 0..3, is 0 exactly until the tournament
\* starts, changes by +1 only and never exceeds the number of scheduled
\* rounds, whatever reports arrive, repeated ones included
C40_CurrentRoundBounded ==
    [][/\ current_round' \in 0..3
       /\ current_round' = 0 <=> ~tournament_started'
       /\ current_round' \in {current_round, current_round + 1}
       /\ scheduler' # NoObject => current_round' <= GetTotalRounds(scheduler')]_vars

-----------------------------------------------------------------------------
(* Properties of the dispatch of rounds (SpecBroadcast) *)

\* start_round has sent all its announcements of round r
RoundDispatched(r) ==
    /\ current_round >= r
    /\ \A t \in BagToSet(tasks) : ~(t.pc = "announce" /\ t.round_id = RoundId(r))
    /\ \A t \in BagToSet(tasks) : ~(t.kind = "start_tournament" /\ t.pc = "created")

\* the ROUND_ANNOUNCEMENTs sent to a referee for round r
AnnouncementsTo(ref, r) ==
    {m \in BagToSet(outbox) :
        m.type = "ROUND_ANNOUNCEMENT" /\ m.to = ref /\ m.round_id = RoundId(r)}

\* C29: the referee of a match is chosen by the match index modulo the number
\* of referees: M1 of every round goes to the lexicographically first
\* referee, M2 to the second; each round produces exactly one
\* ROUND_ANNOUNCEMENT per referee, containing exactly that referee's match
C29_RefereeAssignment ==
    scheduler # NoObject =>
        /\ \A r \in 1..Len(scheduler.schedule) :
              /\ scheduler.schedule[r][1].referee_id = DictKeys(referees)[1]
              /\ scheduler.schedule[r][2].referee_id = DictKeys(referees)[2]
        /\ \A r \in 1..Len(scheduler.schedule), k \in 1..2 :
              LET ref == DictKeys(referees)[k]
              IN  /\ SentCount("ROUND_ANNOUNCEMENT", ref, RoundId(r)) <= 1
                  /\ \A m \in AnnouncementsTo(ref, r) :
                        m.body = <<scheduler.schedule[r][k]>>
                  /\ RoundDispatched(r) =>
                        SentCount("ROUND_ANNOUNCEMENT", ref, RoundId(r)) = 1

\* the three rounds have been dispatched: six announcements have been sent, and
\* the one of round 3 to REF02 names R3M2
C29_Witness ==
    /\ RoundDispatched(3)
    /\ BagCardinality(outbox) >= 6
    /\ \E m \in AnnouncementsTo("REF02", 3) :
          Len(m.body) = 1 /\ m.body[1].match_id = "R3M2"

\* round r has settled: finish_round has gone past the broadcast of round r's
\* standings, to the wait before round r + 1 or to end_tournament
RoundSettled(r) ==
    \/ current_round > r
    \/ current_round = r /\ \E t \in BagToSet(tasks) : t.pc = "sleep"
    \/ r = GetTotalRounds(scheduler) /\ TournamentComplete

\* C30: the per-round outcome set is cleared after the standings broadcast and
\* before the tournament is ended or the next round awaited, for every round
\* including the final one: once round r has settled, match_results holds no
\* outcome of round r
C30_OutcomesCleared ==
    scheduler # NoObject =>
        \A r \in 1..GetTotalRounds(scheduler) :
            RoundSettled(r) =>
                \A id \in DOMAIN match_results : match_results[id].round_id # RoundId(r)

=============================================================================
